---- MODULE Spec2Model ----
(***************************************************************************)
(* The telemetry generators of aura-pilot/server/mock_telemetry_generator  *)
(* (healthy, thermal, mechanical) as one state machine.  A call draws its  *)
(* arguments in Init; the severity curve is appended entry by entry, then  *)
(* one action per iteration of the tick loop appends one row to data, and  *)
(* Return models the DataFrame conversion that ends the call.              *)
(*                                                                         *)
(* Reals are fixed-point integers: 1.0 is Unit.  A call of random.random, *)
(* random.randint, np.random.normal or np.random.choice is a choice among  *)
(* the outcomes it can produce (a bounded subset for the Gaussian).  A     *)
(* metric whose value is round(mean + normal(0, sd), 3) is kept in the row *)
(* as the cell Drawn(mean, sd, ...): the row records what was drawn from,  *)
(* not one sample.                                                         *)
(***************************************************************************)
EXTENDS Integers, Sequences, FiniteSets, TLC

VARIABLES scenario, port_count, duration, interval_seconds, end_time,
          total_points, start_time, timestamps,
          curve, port, i, last_link_state, link_flap_cooldown,
          cumulative_errors, data, pc, exc,
          built_curve, current_severity, flap_probability,
          servicer, workers, random_state, client, questdb

vars == <<scenario, port_count, duration, interval_seconds, end_time,
          total_points, start_time, timestamps,
          curve, port, i, last_link_state, link_flap_cooldown,
          cumulative_errors, data, pc, exc,
          built_curve, current_severity, flap_probability,
          servicer, workers, random_state, client, questdb>>

\* the locals of a tick that no row shows, recorded by the specifications
\* that follow the tick loop without keeping the rows
tick_locals == <<built_curve, current_severity, flap_probability>>

\* the state of telemetry_server.py: one call of SubscribeTelemetry, the
\* worker threads of the pool, and the process-wide random generator
server == <<servicer, workers, random_state>>

\* the state of telemetry_client.py: the position and locals of run(), and
\* the table of the store it writes
sink == <<client, questdb>>

(***************************************************************************)
(* Bounds of the model.                                                    *)
(***************************************************************************)
\* minutes * 60, the requested duration in seconds, ranges over -1..MaxDuration
MaxDuration == 5
\* interval_seconds ranges over 1..MaxInterval
MaxInterval == 2
\* port_count of the healthy generator ranges over 1..MaxPorts
MaxPorts == 2
\* a healthy call generates at most MaxRows rows (port_count * total_points)
MaxRows == 4
\* int(np.random.normal(...)) ranges over -1..MaxInc
MaxInc == 1
\* at most MaxErrors randomly drawn errors/insertions are accumulated by one port
MaxErrors == 1
\* the wall clock read by datetime.now(), in seconds
MaxNow == 1000

(***************************************************************************)
(* Arithmetic helpers.                                                     *)
(***************************************************************************)
Unit == 10 ^ 4

Abs(x) == IF x < 0 THEN -x ELSE x

\* Python's int(a / b) for b > 0: truncation toward zero
TruncDiv(a, b) == IF a >= 0 THEN a \div b ELSE -((-a) \div b)

Max0Neg(x) == x

\* Python's max(0, x)
Max0(x) == IF x > 0 THEN x ELSE 0

Min(a, b) == IF a < b THEN a ELSE b

Round3Down(x) == (x \div (Unit \div 1000)) * (Unit \div 1000)

\* Python's round(x, 3) on a value in units of 1/Unit: nearest multiple of
\* 0.001, ties to even
Round3(x) ==
    LET g == Unit \div 1000
        q == x \div g
        r == x % g
    IN  IF 2 * r < g THEN q * g
        ELSE IF 2 * r > g THEN (q + 1) * g
        ELSE IF q % 2 = 0 THEN q * g ELSE (q + 1) * g

\* the outcomes of `random.random() < p`, p in units of 1/Unit
Bernoulli(p) == IF p <= 0 THEN {FALSE} ELSE IF p >= Unit THEN {TRUE} ELSE BOOLEAN

\* the bounded outcomes of np.random.normal(0, sd): three standard deviations
\* and a little either way, not on the 0.001 grid
NormalDraws(sd) == { -(3 * sd + 4), 3 * sd + 4 }

\* the bounded outcomes of int(np.random.normal(...) [* factor])
IncDraws == (-1) .. MaxInc

\* the increments an error event can add: none when the event does not fire,
\* max(0, int(draw)) when it does
NewErrors(events) ==
    (IF FALSE \in events THEN {0} ELSE {})
    \cup (IF TRUE \in events THEN { Max0(n) : n \in IncDraws } ELSE {})

(***************************************************************************)
(* Rows.                                                                   *)
(***************************************************************************)
Scenarios == {"Healthy", "Thermal", "Mechanical"}

\* the keys of healthy_params, in order
Metrics == << "SNR", "FEC_Correctable", "FEC_Uncorrectable", "CRCErrorCount",
              "Temperature", "Voltage", "FanSpeed", "Humidity", "Airflow",
              "AmbientTemperature", "OpticalRxPower", "OpticalTxPower",
              "LinkLatency", "CableLengthEstimate", "ConnectorInsertionCount" >>

MetricSet == { Metrics[k] : k \in 1 .. Len(Metrics) }

Counters == {"FEC_Correctable", "FEC_Uncorrectable", "CRCErrorCount",
             "ConnectorInsertionCount"}

\* a cell of a row: None, an exact value, or a rounded Gaussian draw
None == [kind |-> "none"]
Exact(v) == [kind |-> "exact", v |-> v]
\* round(mean + daily_factor * daily + normal(0, sd), 3), clamped first to
\* clamp[1]..clamp[2] when clamp is not <<>>
Drawn(mean, sd, daily, clamp) ==
    [kind |-> "drawn", mean |-> mean, sd |-> sd, daily |-> daily, clamp |-> clamp]
\* round(mean + normal(0, sd1) + normal(0, sd2), 3)
Drawn2(mean, sd1, sd2) ==
    [kind |-> "drawn2", mean |-> mean, sd |-> sd1, sd2 |-> sd2]
\* round(mean + normal(0, sd), 3) + a draw of normal(0, post), added after
\* the rounding (its absolute value when magnitude is TRUE)
Jittered(mean, sd, post, magnitude) ==
    [kind |-> "jittered", mean |-> mean, sd |-> sd, post |-> post,
     magnitude |-> magnitude]

IsNone(c) == c.kind = "none"

WhenUpAlways(up, cell) == cell

WhenUpNever(up, cell) == None

\* if link_state == "up": row[m] = cell   else: row[m] = None
WhenUp(up, cell) == IF up THEN cell ELSE None

PortName(p) == <<"port", p>>

\* base and variation of healthy_params, base in units of 1/Unit for the
\* floating metrics and as an integer for the counters
Base(m) ==
    CASE m = "SNR" -> 32 * Unit
      [] m = "FEC_Correctable" -> 10
      [] m = "FEC_Uncorrectable" -> 0
      [] m = "CRCErrorCount" -> 0
      [] m = "Temperature" -> 35 * Unit
      [] m = "Voltage" -> (33 * Unit) \div 10
      [] m = "FanSpeed" -> 3000 * Unit
      [] m = "Humidity" -> 45 * Unit
      [] m = "Airflow" -> 15 * Unit
      [] m = "AmbientTemperature" -> 22 * Unit
      [] m = "OpticalRxPower" -> (-5) * Unit
      [] m = "OpticalTxPower" -> 0
      [] m = "LinkLatency" -> 50 * Unit
      [] m = "CableLengthEstimate" -> 10 * Unit
      [] m = "ConnectorInsertionCount" -> 5

\* variation of the thermal and mechanical healthy_params
Variation(m) ==
    CASE m = "SNR" -> 3 * Unit
      [] m = "Temperature" -> 2 * Unit
      [] m = "Voltage" -> Unit \div 10
      [] m = "FanSpeed" -> 200 * Unit
      [] m = "Humidity" -> 5 * Unit
      [] m = "Airflow" -> 2 * Unit
      [] m = "AmbientTemperature" -> Unit
      [] m = "OpticalRxPower" -> Unit
      [] m = "OpticalTxPower" -> Unit \div 2
      [] m = "LinkLatency" -> 10 * Unit
      [] OTHER -> 0


\* variation of the healthy generator's healthy_params
HealthyVariation(m) ==
    CASE m = "Temperature" -> 5 * Unit
      [] m = "AmbientTemperature" -> 2 * Unit
      [] OTHER -> Variation(m)

\* port_params[m]['base'] = base + (port - 2.5) * 0.1 * base
PortBase(m, p) == TruncDiv(Base(m) * (15 + 2 * p), 20)

\* int(port_params['ConnectorInsertionCount']['base'])
HealthyInsertionBase(p) == TruncDiv(Base("ConnectorInsertionCount") * (15 + 2 * p), 20)

InitErrors(insertions) ==
    [FEC_Correctable |-> 0, FEC_Uncorrectable |-> 0, CRCErrorCount |-> 0,
     ConnectorInsertionCount |-> insertions]

\* the randomly drawn errors and insertions accumulated so far
ErrorsDrawn(ce, insertions) ==
    ce.FEC_Correctable + ce.FEC_Uncorrectable + ce.CRCErrorCount
        + (ce.ConnectorInsertionCount - insertions)

(***************************************************************************)
(* The call: arguments, total_points and timestamps.                       *)
(***************************************************************************)
TimestampsFromOne(start, interval, n) ==
    [k \in 1 .. Max0(n) |-> start + k * interval]

\* [start_time + timedelta(seconds=i*interval_seconds) for i in range(total_points)]
Timestamps(start, interval, n) ==
    [k \in 1 .. Max0(n) |-> start + (k - 1) * interval]

\* the generator is called on its own: the locals of the tick loop are not
\* recorded
NoTickLocals ==
    /\ built_curve = <<>>
    /\ current_severity = 0
    /\ flap_probability = 0

\* the generator is called on its own: no subscription is being served
\* telemetry_client.py is not running
NoClient ==
    /\ client = [at |-> "none"]
    /\ questdb = [table |-> FALSE, rows |-> <<>>]

NoServer ==
    /\ servicer = [at |-> "none"]
    /\ workers = <<>>
    /\ random_state = 0

Init ==
    /\ scenario \in Scenarios
    /\ duration \in (-1) .. MaxDuration
    /\ interval_seconds \in 1 .. MaxInterval
    /\ port_count \in (IF scenario = "Healthy" THEN 1 .. MaxPorts ELSE {1})
    /\ end_time = MaxNow
    /\ total_points = TruncDiv(duration, interval_seconds)
    /\ scenario = "Healthy" => port_count * total_points <= MaxRows
    /\ start_time = end_time - duration
    /\ timestamps = Timestamps(start_time, interval_seconds, total_points)
    /\ curve = <<>>
    /\ port = 0
    /\ i = 0
    /\ last_link_state = "up"
    /\ link_flap_cooldown = 0
    /\ cumulative_errors = InitErrors(Base("ConnectorInsertionCount"))
    /\ data = <<>>
    /\ pc = "running"
    /\ exc = "none"
    /\ NoTickLocals
    /\ NoServer
    /\ NoClient

call == <<scenario, port_count, duration, interval_seconds, end_time,
          total_points, start_time, timestamps>>

(***************************************************************************)
(* healthy_telemetry_generator                                             *)
(***************************************************************************)
HealthyLinkHysteretic(last, cooldown) ==
    IF cooldown > 0
    THEN { [link_state |-> last, last_link_state |-> last,
            link_flap_cooldown |-> cooldown - 1] }
    ELSE { [link_state |-> last, last_link_state |-> last, link_flap_cooldown |-> 0] }
         \cup { [link_state |-> (IF last = "up" THEN "down" ELSE "up"),
                 last_link_state |-> (IF last = "up" THEN "down" ELSE "up"),
                 link_flap_cooldown |-> c] : c \in 3 .. 8 }

\* link_state = "up" if random.random() < up_probability else "down";
\* the healthy generator keeps no last state and no cooldown
HealthyLink(last, cooldown) ==
    { [link_state |-> (IF up THEN "up" ELSE "down"),
       last_link_state |-> last, link_flap_cooldown |-> cooldown] :
         up \in Bernoulli((995 * Unit) \div 1000) }

\* the accumulators after the metric loop of one up row
HealthyCounters(ce, p) ==
    { c \in { [FEC_Correctable |-> ce.FEC_Correctable + a,
               FEC_Uncorrectable |-> ce.FEC_Uncorrectable + b,
               CRCErrorCount |-> ce.CRCErrorCount + d,
               ConnectorInsertionCount |-> ce.ConnectorInsertionCount + e] :
                 a \in NewErrors(Bernoulli((5 * Unit) \div 100)),
                 b \in NewErrors(Bernoulli((5 * Unit) \div 100)),
                 d \in NewErrors(Bernoulli((5 * Unit) \div 100)),
                 e \in { IF ins THEN 1 ELSE 0 : ins \in Bernoulli((5 * Unit) \div 10000) } } :
        ErrorsDrawn(c, HealthyInsertionBase(p)) <= MaxErrors }

HealthyDownRowZero(ts, p) ==
    [timestamp |-> ts, port |-> PortName(p), linkState |-> "down"]
        @@ [m \in MetricSet |-> IF m \in Counters THEN Exact(0) ELSE None]

\* row[metric] = None for every metric of a down row
HealthyDownRow(ts, p) ==
    [timestamp |-> ts, port |-> PortName(p), linkState |-> "down"]
        @@ [m \in MetricSet |-> None]

HealthyCell(m, p, ce) ==
    CASE m \in Counters -> Exact(ce[m])
      [] m = "CableLengthEstimate" -> Exact(Round3(PortBase(m, p)))
      [] m \in {"Temperature", "Voltage", "FanSpeed"} ->
            Drawn(PortBase(m, p), HealthyVariation(m) \div 2, HealthyVariation(m) \div 2, <<>>)
      [] m = "AmbientTemperature" -> Drawn(PortBase(m, p), Unit \div 2, 2 * Unit, <<>>)
      [] m = "Humidity" -> Drawn(PortBase(m, p), Unit, (-3) * Unit, <<30 * Unit, 70 * Unit>>)
      [] OTHER -> Drawn(PortBase(m, p), HealthyVariation(m), 0, <<>>)

HealthyUpRow(ts, p, ce) ==
    [timestamp |-> ts, port |-> PortName(p), linkState |-> "up"]
        @@ [m \in MetricSet |-> HealthyCell(m, p, ce)]

\* for port in range(1, port_count + 1): the accumulators of the next port
HealthyNextPort ==
    /\ pc = "running" /\ scenario = "Healthy"
    /\ port < port_count
    /\ port = 0 \/ i = Len(timestamps)
    /\ port' = port + 1
    /\ i' = 0
    /\ cumulative_errors' = InitErrors(HealthyInsertionBase(port + 1))
    /\ UNCHANGED <<call, tick_locals, server, sink, curve, last_link_state, link_flap_cooldown, data, pc, exc>>

\* for ts in timestamps: one row
HealthyTick ==
    /\ pc = "running" /\ scenario = "Healthy"
    /\ port >= 1 /\ i < Len(timestamps)
    /\ \E l \in HealthyLink(last_link_state, link_flap_cooldown) :
         /\ last_link_state' = l.last_link_state
         /\ link_flap_cooldown' = l.link_flap_cooldown
         /\ IF l.link_state = "down"
            THEN /\ data' = Append(data, HealthyDownRow(timestamps[i + 1], port))
                 /\ UNCHANGED cumulative_errors
            ELSE \E ce \in HealthyCounters(cumulative_errors, port) :
                 /\ cumulative_errors' = ce
                 /\ data' = Append(data, HealthyUpRow(timestamps[i + 1], port, ce))
    /\ i' = i + 1
    /\ UNCHANGED <<call, tick_locals, server, sink, curve, port, pc, exc>>

(***************************************************************************)
(* The link state machine shared by the thermal and mechanical generators. *)
(***************************************************************************)
\* "down" if last_link_state == "up" else "up"
Flip(s) == IF s = "up" THEN "down" ELSE "up"

\* int(total_points * f) for f = tenths / 10
IntFrac(n, tenths) == TruncDiv(n * tenths, 10)

LinkHoldByTwo(last, cooldown) ==
    { [link_state |-> last, last_link_state |-> last,
       link_flap_cooldown |-> cooldown - 2] }

LinkHoldBroken(last, cooldown) ==
    { [link_state |-> Flip(last), last_link_state |-> Flip(last),
       link_flap_cooldown |-> cooldown - 1] }

\* if link_flap_cooldown > 0: the state is kept and the cooldown counts down
LinkHold(last, cooldown) ==
    { [link_state |-> last, last_link_state |-> last,
       link_flap_cooldown |-> cooldown - 1] }

\* else: flip with the flap probability and draw a cooldown in lo..hi
LinkTrial(last, probability, lo, hi) ==
    { [link_state |-> last, last_link_state |-> last, link_flap_cooldown |-> 0] :
        flap \in Bernoulli(probability) \ {TRUE} }
    \cup
    UNION { { [link_state |-> Flip(last), last_link_state |-> Flip(last),
               link_flap_cooldown |-> c] : c \in lo .. hi } :
            flap \in Bernoulli(probability) \ {FALSE} }

(***************************************************************************)
(* thermal_telemetry_generator                                             *)
(***************************************************************************)
target_temp == 55 * Unit

ThermalNormalPeriod == IntFrac(total_points, 3)
ThermalRisingPeriod == IntFrac(total_points, 3)
ThermalHighPeriodTruncated == IntFrac(total_points, 4)

ThermalHighPeriod == total_points - ThermalNormalPeriod - ThermalRisingPeriod

\* for i in range(normal_period): temp_progression.append(base + normal(0, variation * 0.5))
ThermalNormal ==
    /\ pc = "running" /\ scenario = "Thermal"
    /\ Len(curve) < ThermalNormalPeriod
    /\ \E n \in NormalDraws(Variation("Temperature") \div 2) :
         curve' = Append(curve, Base("Temperature") + n)
    /\ UNCHANGED <<call, tick_locals, server, sink, port, i, last_link_state, link_flap_cooldown,
                   cumulative_errors, data, pc, exc>>

\* start_temp = temp_progression[-1] on the list the normal period left empty
ThermalStartTempError ==
    /\ pc = "running" /\ scenario = "Thermal"
    /\ Len(curve) = Max0(ThermalNormalPeriod)
    /\ Len(curve) = 0
    /\ pc' = "error" /\ exc' = "IndexError"
    /\ UNCHANGED <<call, tick_locals, server, sink, curve, port, i, last_link_state, link_flap_cooldown,
                   cumulative_errors, data>>

\* for i in range(rising_period): the ramp from start_temp to target_temp
ThermalRising ==
    /\ pc = "running" /\ scenario = "Thermal"
    /\ Len(curve) > 0
    /\ Len(curve) >= ThermalNormalPeriod
    /\ Len(curve) < ThermalNormalPeriod + ThermalRisingPeriod
    /\ LET start_temp == curve[ThermalNormalPeriod]
           k == Len(curve) - ThermalNormalPeriod
       IN  \E n \in NormalDraws(Unit) :
             curve' = Append(curve,
                 start_temp + TruncDiv((target_temp - start_temp) * k, ThermalRisingPeriod) + n)
    /\ UNCHANGED <<call, tick_locals, server, sink, port, i, last_link_state, link_flap_cooldown,
                   cumulative_errors, data, pc, exc>>

\* for i in range(high_period): target_temp + normal(0, 2.0)
ThermalHigh ==
    /\ pc = "running" /\ scenario = "Thermal"
    /\ Len(curve) > 0
    /\ Len(curve) >= ThermalNormalPeriod + ThermalRisingPeriod
    /\ Len(curve) < ThermalNormalPeriod + ThermalRisingPeriod + ThermalHighPeriod
    /\ \E n \in NormalDraws(2 * Unit) :
         curve' = Append(curve, target_temp + n)
    /\ UNCHANGED <<call, tick_locals, server, sink, port, i, last_link_state, link_flap_cooldown,
                   cumulative_errors, data, pc, exc>>

\* the three loops that build temp_progression have run to their end
ThermalCurveDone ==
    /\ Len(curve) > 0
    /\ Len(curve) >= ThermalNormalPeriod
    /\ Len(curve) >= ThermalNormalPeriod + ThermalRisingPeriod
    /\ Len(curve) >= ThermalNormalPeriod + ThermalRisingPeriod + ThermalHighPeriod

\* flap_probability of the thermal generator, in units of 1/Unit
ThermalFlapProbability(temp) ==
    IF temp < 45 * Unit THEN Unit \div 1000
    ELSE IF temp < 50 * Unit THEN (5 * Unit) \div 100
    ELSE (20 * Unit) \div 100

\* random.randint(3, 10)
ThermalCooldownMin == 3
ThermalCooldownMax == 10

ThermalLink(last, cooldown, temp) ==
    IF cooldown > 0
    THEN LinkHold(last, cooldown)
    ELSE LinkTrial(last, ThermalFlapProbability(temp),
                   ThermalCooldownMin, ThermalCooldownMax)

\* error_factor = 1 + max(0, (current_temp - 40) / 10)
ThermalErrorFactor(temp) == Unit + Max0(TruncDiv(temp - 40 * Unit, 10))

ThermalCountersAnyState(ce, link_state, temp) ==
    { c \in { [ce EXCEPT !.FEC_Correctable = @ + a,
                         !.FEC_Uncorrectable = @ + b,
                         !.CRCErrorCount = @ + d] :
                a \in NewErrors(Bernoulli(ThermalErrorFactor(temp) \div 10)),
                b \in (IF temp > 48 * Unit
                       THEN NewErrors(Bernoulli((5 * ThermalErrorFactor(temp)) \div 100))
                       ELSE {0}),
                d \in NewErrors(Bernoulli((5 * ThermalErrorFactor(temp)) \div 100)) } :
        ErrorsDrawn(c, ce.ConnectorInsertionCount) <= MaxErrors }

\* the accumulators after one row
ThermalCounters(ce, link_state, temp) ==
    IF link_state = "up"
    THEN { c \in { [ce EXCEPT !.FEC_Correctable = @ + a,
                              !.FEC_Uncorrectable = @ + b,
                              !.CRCErrorCount = @ + d] :
                     a \in NewErrors(Bernoulli(ThermalErrorFactor(temp) \div 10)),
                     b \in (IF temp > 48 * Unit
                            THEN NewErrors(Bernoulli((5 * ThermalErrorFactor(temp)) \div 100))
                            ELSE {0}),
                     d \in NewErrors(Bernoulli((5 * ThermalErrorFactor(temp)) \div 100)) } :
             ErrorsDrawn(c, ce.ConnectorInsertionCount) <= MaxErrors }
    ELSE {ce}

ThermalRow(ts, link_state, temp, ce) ==
    LET up == link_state = "up"
        V(m) == Variation(m)
        rx_degradation == Max0(TruncDiv(temp - 45 * Unit, 10))
    IN  [timestamp |-> ts, port |-> PortName(1), linkState |-> link_state,
         SNR |-> WhenUp(up, Drawn(TruncDiv(32 * Max0(65 * Unit - temp), 30),
                                  V("SNR"), 0, <<>>)),
         FEC_Correctable |-> WhenUp(up, Exact(ce.FEC_Correctable)),
         FEC_Uncorrectable |-> WhenUp(up, Exact(ce.FEC_Uncorrectable)),
         CRCErrorCount |-> WhenUp(up, Exact(ce.CRCErrorCount)),
         Temperature |-> Exact(Round3(temp)),
         Voltage |-> WhenUp(up, Drawn(Base("Voltage"), V("Voltage"), 0, <<>>)),
         FanSpeed |-> Drawn(Base("FanSpeed") + Max0((temp - 40 * Unit) * 50),
                            V("FanSpeed"), 0, <<>>),
         Humidity |-> Drawn(Base("Humidity"), V("Humidity"), 0, <<>>),
         Airflow |-> Drawn(Base("Airflow"), V("Airflow"), 0, <<>>),
         AmbientTemperature |->
             Drawn(Base("AmbientTemperature"), V("AmbientTemperature"), 0, <<>>),
         OpticalRxPower |->
             WhenUp(up, Drawn(Base("OpticalRxPower") - rx_degradation,
                              V("OpticalRxPower"), 0, <<>>)),
         OpticalTxPower |->
             WhenUp(up, Drawn(Base("OpticalTxPower") - TruncDiv(rx_degradation, 2),
                              V("OpticalTxPower"), 0, <<>>)),
         LinkLatency |->
             WhenUp(up, Drawn(Base("LinkLatency") + Max0((temp - 40 * Unit) * 2),
                              V("LinkLatency"), 0, <<>>)),
         CableLengthEstimate |-> Exact(Base("CableLengthEstimate")),
         ConnectorInsertionCount |-> Exact(ce.ConnectorInsertionCount)]

\* for i, ts in enumerate(timestamps): one row; temp_progression[i] raises
\* IndexError past the end of the list
ThermalTick ==
    /\ pc = "running" /\ scenario = "Thermal"
    /\ ThermalCurveDone
    /\ i < Len(timestamps)
    /\ IF i >= Len(curve)
       THEN /\ pc' = "error" /\ exc' = "IndexError"
            /\ UNCHANGED <<i, last_link_state, link_flap_cooldown,
                           cumulative_errors, data>>
       ELSE /\ LET current_temp == curve[i + 1] IN
               \E l \in ThermalLink(last_link_state, link_flap_cooldown, current_temp) :
               \E ce \in ThermalCounters(cumulative_errors, l.link_state, current_temp) :
                 /\ last_link_state' = l.last_link_state
                 /\ link_flap_cooldown' = l.link_flap_cooldown
                 /\ cumulative_errors' = ce
                 /\ data' = Append(data,
                       ThermalRow(timestamps[i + 1], l.link_state, current_temp, ce))
            /\ i' = i + 1
            /\ UNCHANGED <<pc, exc>>
    /\ UNCHANGED <<call, tick_locals, server, sink, curve, port>>

(***************************************************************************)
(* mechanical_telemetry_generator                                          *)
(***************************************************************************)
MechNormalPeriod == IntFrac(total_points, 2)
MechEarlyPeriod == IntFrac(total_points, 2)
MechModeratePeriod == IntFrac(total_points, 3)
MechSeverePeriod ==
    total_points - MechNormalPeriod - MechEarlyPeriod - MechModeratePeriod

\* np.random.choice([-2.0, -1.5, -1.0, -0.5, 0.5, 1.0, 1.5, 2.0])
JitterChoices == { (j * Unit) \div 2 : j \in ((-4) .. 4) \ {0} }

\* for i in range(normal_period): optical_degradation.append(0.0)
MechNormal ==
    /\ pc = "running" /\ scenario = "Mechanical"
    /\ Len(curve) < MechNormalPeriod
    /\ curve' = Append(curve, 0)
    /\ UNCHANGED <<call, tick_locals, server, sink, port, i, last_link_state, link_flap_cooldown,
                   cumulative_errors, data, pc, exc>>

\* for i in range(early_issue_period): progress * 1.0
MechEarly ==
    /\ pc = "running" /\ scenario = "Mechanical"
    /\ Len(curve) >= MechNormalPeriod
    /\ Len(curve) < MechNormalPeriod + MechEarlyPeriod
    /\ LET k == Len(curve) - MechNormalPeriod
       IN  curve' = Append(curve, TruncDiv(k * Unit, MechEarlyPeriod))
    /\ UNCHANGED <<call, tick_locals, server, sink, port, i, last_link_state, link_flap_cooldown,
                   cumulative_errors, data, pc, exc>>

\* start_degradation = optical_degradation[-1] on the list the normal and
\* early periods left empty
MechStartDegradationError ==
    /\ pc = "running" /\ scenario = "Mechanical"
    /\ Len(curve) = Max0(MechNormalPeriod) + Max0(MechEarlyPeriod)
    /\ Len(curve) = 0
    /\ pc' = "error" /\ exc' = "IndexError"
    /\ UNCHANGED <<call, tick_locals, server, sink, curve, port, i, last_link_state, link_flap_cooldown,
                   cumulative_errors, data>>

MechModerateFromZero ==
    /\ pc = "running" /\ scenario = "Mechanical"
    /\ Len(curve) > 0
    /\ Len(curve) >= MechNormalPeriod + MechEarlyPeriod
    /\ Len(curve) < MechNormalPeriod + MechEarlyPeriod + MechModeratePeriod
    /\ LET k == Len(curve) - MechNormalPeriod - MechEarlyPeriod
       IN  \E n \in NormalDraws((3 * Unit) \div 10) :
             curve' = Append(curve, TruncDiv(k * 2 * Unit, MechModeratePeriod) + n)
    /\ UNCHANGED <<call, tick_locals, server, sink, port, i, last_link_state, link_flap_cooldown,
                   cumulative_errors, data, pc, exc>>

\* for i in range(moderate_issue_period): the ramp of 2.0 dB with small noise
MechModerate ==
    /\ pc = "running" /\ scenario = "Mechanical"
    /\ Len(curve) > 0
    /\ Len(curve) >= MechNormalPeriod + MechEarlyPeriod
    /\ Len(curve) < MechNormalPeriod + MechEarlyPeriod + MechModeratePeriod
    /\ LET start_degradation == curve[MechNormalPeriod + MechEarlyPeriod]
           k == Len(curve) - MechNormalPeriod - MechEarlyPeriod
       IN  \E n \in NormalDraws((3 * Unit) \div 10) :
             curve' = Append(curve,
                 start_degradation + TruncDiv(k * 2 * Unit, MechModeratePeriod) + n)
    /\ UNCHANGED <<call, tick_locals, server, sink, port, i, last_link_state, link_flap_cooldown,
                   cumulative_errors, data, pc, exc>>

\* for i in range(severe_issue_period): 2.0 dB more, with a jitter
MechSevere ==
    /\ pc = "running" /\ scenario = "Mechanical"
    /\ Len(curve) > 0
    /\ Len(curve) >= MechNormalPeriod + MechEarlyPeriod + MechModeratePeriod
    /\ Len(curve) < MechNormalPeriod + MechEarlyPeriod + MechModeratePeriod
                        + MechSeverePeriod
    /\ LET start_degradation ==
               curve[MechNormalPeriod + MechEarlyPeriod + MechModeratePeriod]
           k == Len(curve) - MechNormalPeriod - MechEarlyPeriod - MechModeratePeriod
       IN  \E r \in 5 .. 10 :
           \E j \in (IF k % r = 0 THEN JitterChoices ELSE NormalDraws(Unit \div 2)) :
             curve' = Append(curve, start_degradation + 2 * Unit + j)
    /\ UNCHANGED <<call, tick_locals, server, sink, port, i, last_link_state, link_flap_cooldown,
                   cumulative_errors, data, pc, exc>>

\* the four loops that build optical_degradation have run to their end
MechCurveDone ==
    /\ Len(curve) > 0
    /\ Len(curve) >= MechNormalPeriod + MechEarlyPeriod
    /\ Len(curve) >= MechNormalPeriod + MechEarlyPeriod + MechModeratePeriod
    /\ Len(curve) >= MechNormalPeriod + MechEarlyPeriod + MechModeratePeriod
                        + MechSeverePeriod

MechFlapProbabilityInclusive(degradation) ==
    IF degradation <= Unit THEN Unit \div 1000
    ELSE IF degradation <= 2 * Unit THEN (2 * Unit) \div 100
    ELSE IF degradation <= 3 * Unit THEN (8 * Unit) \div 100
    ELSE (25 * Unit) \div 100

\* flap_probability of the mechanical generator, in units of 1/Unit
MechFlapProbability(degradation) ==
    IF degradation < Unit THEN Unit \div 1000
    ELSE IF degradation < 2 * Unit THEN (2 * Unit) \div 100
    ELSE IF degradation < 3 * Unit THEN (8 * Unit) \div 100
    ELSE (25 * Unit) \div 100

\* random.randint(5, 15) after a flip to up above 2.0 dB, else random.randint(3, 8)
MechCooldownMin(degradation, new_state) ==
    IF degradation > 2 * Unit /\ new_state = "up" THEN 5 ELSE 3

MechCooldownMaxLong(degradation, new_state) == 15

MechCooldownMax(degradation, new_state) ==
    IF degradation > 2 * Unit /\ new_state = "up" THEN 15 ELSE 8

MechLink(last, cooldown, degradation) ==
    IF cooldown > 0
    THEN LinkHold(last, cooldown)
    ELSE LinkTrial(last, MechFlapProbability(degradation),
                   MechCooldownMin(degradation, Flip(last)),
                   MechCooldownMax(degradation, Flip(last)))

\* error_factor = 1 + max(0, current_degradation)
MechErrorFactor(degradation) == Unit + Max0(degradation)

\* the FEC and CRC accumulators after one row
MechCountersAnySeverity(ce, link_state, degradation) ==
    IF link_state = "up"
    THEN { c \in { [ce EXCEPT !.FEC_Correctable = @ + a,
                              !.FEC_Uncorrectable = @ + b,
                              !.CRCErrorCount = @ + d] :
                     a \in NewErrors(Bernoulli(MechErrorFactor(degradation) \div 10)),
                     b \in NewErrors(Bernoulli((8 * MechErrorFactor(degradation)) \div 100)),
                     d \in NewErrors(Bernoulli((5 * MechErrorFactor(degradation)) \div 100)) } :
             ErrorsDrawn(c, ce.ConnectorInsertionCount) <= MaxErrors }
    ELSE {ce}

MechCounters(ce, link_state, degradation) ==
    IF link_state = "up"
    THEN { c \in { [ce EXCEPT !.FEC_Correctable = @ + a,
                              !.FEC_Uncorrectable = @ + b,
                              !.CRCErrorCount = @ + d] :
                     a \in NewErrors(Bernoulli(MechErrorFactor(degradation) \div 10)),
                     b \in (IF degradation > 3 * Unit
                            THEN NewErrors(Bernoulli((8 * MechErrorFactor(degradation)) \div 100))
                            ELSE {0}),
                     d \in NewErrors(Bernoulli((5 * MechErrorFactor(degradation)) \div 100)) } :
             ErrorsDrawn(c, ce.ConnectorInsertionCount) <= MaxErrors }
    ELSE {ce}

ReseatAnyState(tick, link_state) ==
    tick = IntFrac(total_points, 8)

\* i == int(total_points * 0.8) and link_state == "down"
Reseat(tick, link_state) ==
    tick = IntFrac(total_points, 8) /\ link_state = "down"

ReseatedNever(degradations, tick) == degradations

ReseatedNext30(degradations, tick) ==
    [j \in 1 .. Len(degradations) |->
        IF j - 1 >= tick + 1 /\ j - 1 < Min(tick + 31, Len(degradations))
        THEN Max0(degradations[j] - 2 * Unit)
        ELSE degradations[j]]

\* for j in range(i, min(i+30, len(optical_degradation))):
\*     optical_degradation[j] = max(0, optical_degradation[j] - 2.0)
Reseated(degradations, tick) ==
    [j \in 1 .. Len(degradations) |->
        IF j - 1 >= tick /\ j - 1 < Min(tick + 30, Len(degradations))
        THEN Max0(degradations[j] - 2 * Unit)
        ELSE degradations[j]]

MechRow(ts, link_state, degradation, ce) ==
    LET up == link_state = "up"
        V(m) == Variation(m)
        severe == degradation > 3 * Unit
        jitter(sd) == Abs(TruncDiv(sd * Min(Unit, TruncDiv(degradation, 2)), Unit))
    IN  [timestamp |-> ts, port |-> PortName(1), linkState |-> link_state,
         SNR |-> WhenUp(up,
                     IF severe
                     THEN Jittered(Base("SNR") - 2 * degradation, V("SNR"), 2 * Unit, FALSE)
                     ELSE Drawn(Base("SNR") - 2 * degradation, V("SNR"), 0, <<>>)),
         FEC_Correctable |-> WhenUp(up, Exact(ce.FEC_Correctable)),
         FEC_Uncorrectable |-> WhenUp(up, Exact(ce.FEC_Uncorrectable)),
         CRCErrorCount |-> WhenUp(up, Exact(ce.CRCErrorCount)),
         Temperature |-> Drawn(Base("Temperature"), V("Temperature"), 0, <<>>),
         Voltage |-> WhenUp(up,
                         Drawn(Base("Voltage"),
                               IF severe THEN (3 * V("Voltage")) \div 2 ELSE V("Voltage"),
                               0, <<>>)),
         FanSpeed |-> Drawn(Base("FanSpeed"), V("FanSpeed"), 0, <<>>),
         Humidity |-> Drawn(Base("Humidity"), V("Humidity"), 0, <<>>),
         Airflow |-> Drawn(Base("Airflow"), V("Airflow"), 0, <<>>),
         AmbientTemperature |->
             Drawn(Base("AmbientTemperature"), V("AmbientTemperature"), 0, <<>>),
         OpticalRxPower |->
             WhenUp(up, Drawn2(Base("OpticalRxPower") - TruncDiv(12 * degradation, 10),
                               V("OpticalRxPower"), jitter((2 * Unit) \div 10))),
         OpticalTxPower |->
             WhenUp(up, Drawn2(Base("OpticalTxPower") - TruncDiv(7 * degradation, 10),
                               V("OpticalTxPower"), jitter(Unit \div 10))),
         LinkLatency |->
             WhenUp(up,
                 IF severe
                 THEN Jittered(Base("LinkLatency") + 5 * degradation,
                               V("LinkLatency"), 10 * Unit, TRUE)
                 ELSE Drawn(Base("LinkLatency") + 5 * degradation,
                            V("LinkLatency"), 0, <<>>)),
         CableLengthEstimate |->
             IF severe /\ up
             THEN Drawn(Base("CableLengthEstimate"), Unit \div 2, 0, <<>>)
             ELSE Exact(Base("CableLengthEstimate")),
         ConnectorInsertionCount |-> Exact(ce.ConnectorInsertionCount)]

\* for i, ts in enumerate(timestamps): one row, and the reseat at the 80%
\* mark; optical_degradation[i] raises IndexError past the end of the list
MechTick ==
    /\ pc = "running" /\ scenario = "Mechanical"
    /\ MechCurveDone
    /\ i < Len(timestamps)
    /\ IF i >= Len(curve)
       THEN /\ pc' = "error" /\ exc' = "IndexError"
            /\ UNCHANGED <<curve, i, last_link_state, link_flap_cooldown,
                           cumulative_errors, data>>
       ELSE /\ LET current_degradation == curve[i + 1] IN
               \E l \in MechLink(last_link_state, link_flap_cooldown, current_degradation) :
               \E c \in MechCounters(cumulative_errors, l.link_state, current_degradation) :
                 LET ce == IF Reseat(i, l.link_state)
                           THEN [c EXCEPT !.ConnectorInsertionCount = @ + 1]
                           ELSE c
                 IN  /\ last_link_state' = l.last_link_state
                     /\ link_flap_cooldown' = l.link_flap_cooldown
                     /\ cumulative_errors' = ce
                     /\ curve' = IF Reseat(i, l.link_state)
                                 THEN Reseated(curve, i) ELSE curve
                     /\ data' = Append(data,
                           MechRow(timestamps[i + 1], l.link_state, current_degradation, ce))
            /\ i' = i + 1
            /\ UNCHANGED <<pc, exc>>
    /\ UNCHANGED <<call, tick_locals, server, sink, port>>

(***************************************************************************)
(* The end of a call.                                                      *)
(***************************************************************************)
\* the loops of the generator have run to their end
LoopsDone ==
    IF scenario = "Healthy"
    THEN /\ port = port_count
         /\ port = 0 \/ i = Len(timestamps)
    ELSE /\ IF scenario = "Thermal" THEN ThermalCurveDone ELSE MechCurveDone
         /\ i = Len(timestamps)

ReturnEmptyFrame ==
    /\ pc = "running"
    /\ LoopsDone
    /\ pc' = "done" /\ exc' = "none"
    /\ UNCHANGED <<call, tick_locals, server, sink, curve, port, i, last_link_state, link_flap_cooldown,
                   cumulative_errors, data>>

\* df = pd.DataFrame(data); df['timestamp'] = pd.to_datetime(df['timestamp']);
\* return df.  A frame built from no rows has no timestamp column.
Return ==
    /\ pc = "running"
    /\ LoopsDone
    /\ IF data = <<>>
       THEN pc' = "error" /\ exc' = "KeyError"
       ELSE pc' = "done" /\ exc' = "none"
    /\ UNCHANGED <<call, tick_locals, server, sink, curve, port, i, last_link_state, link_flap_cooldown,
                   cumulative_errors, data>>

Next ==
    \/ HealthyNextPort
    \/ HealthyTick
    \/ ThermalNormal
    \/ ThermalStartTempError
    \/ ThermalRising
    \/ ThermalHigh
    \/ ThermalTick
    \/ MechNormal
    \/ MechEarly
    \/ MechStartDegradationError
    \/ MechModerate
    \/ MechSevere
    \/ MechTick
    \/ Return

Spec == Init /\ [][Next]_vars

(***************************************************************************)
(* The tick loop of the thermal and mechanical generators on a curve that  *)
(* is already built.  The series is followed tick by tick, its length is   *)
(* that of a real call, and data holds the latest row alone; the locals    *)
(* current_temp / current_degradation and flap_probability of the tick are *)
(* recorded, and built_curve is the curve as its construction left it.     *)
(***************************************************************************)
\* a long mechanical series has LongTicks ticks, enough for the 30 entries
\* after the 80% mark to end before the series does
LongTicks == 155
\* a short series has ShortTicks ticks
ShortTicks == 8
\* the built curves differ by a shift of 0..MaxShift entries
MaxShift == 1

\* temperatures a built thermal curve can hold: base + noise is any real
ThermalProbes ==
    << 35 * Unit, 45 * Unit - 1, 45 * Unit, 50 * Unit - 1, 50 * Unit, 55 * Unit >>

\* degradations the moderate and severe phases can hold: ramp + noise is any
\* real
MechProbes ==
    << Unit - 1, Unit, 2 * Unit - 1, 2 * Unit, 3 * Unit - 1, 3 * Unit,
       5 * Unit, -(Unit \div 2) >>

\* temp_progression after the three phases, every entry a noisy value
ThermalCurveOf(n, shift) ==
    [j \in 1 .. n |-> ThermalProbes[((j - 1 + shift) % Len(ThermalProbes)) + 1]]

MechCurveOfRampToOne(n, shift) ==
    [j \in 1 .. n |->
        IF j - 1 < IntFrac(n, 2) THEN 0
        ELSE IF j - 1 < 2 * IntFrac(n, 2)
             THEN TruncDiv((j - IntFrac(n, 2)) * Unit, IntFrac(n, 2))
             ELSE MechProbes[((j - 1 + shift) % Len(MechProbes)) + 1]]

\* optical_degradation after the four phases: 0.0 in the normal period, the
\* ramp progress * 1.0 in the early period, a noisy value after it
MechCurveOf(n, shift) ==
    [j \in 1 .. n |->
        IF j - 1 < IntFrac(n, 2) THEN 0
        ELSE IF j - 1 < 2 * IntFrac(n, 2)
             THEN TruncDiv((j - 1 - IntFrac(n, 2)) * Unit, IntFrac(n, 2))
             ELSE MechProbes[((j - 1 + shift) % Len(MechProbes)) + 1]]

LinkInit ==
    /\ scenario \in {"Thermal", "Mechanical"}
    /\ total_points \in (IF scenario = "Thermal" THEN {ShortTicks}
                         ELSE {ShortTicks, LongTicks})
    /\ interval_seconds = 1
    /\ duration = total_points
    /\ port_count = 1
    /\ end_time = MaxNow
    /\ start_time = end_time - duration
    /\ timestamps = Timestamps(start_time, interval_seconds, total_points)
    /\ \E shift \in 0 .. MaxShift :
         curve = IF scenario = "Thermal" THEN ThermalCurveOf(total_points, shift)
                 ELSE MechCurveOf(total_points, shift)
    /\ built_curve = curve
    /\ port = 0
    /\ i = 0
    /\ last_link_state = "up"
    /\ link_flap_cooldown = 0
    /\ cumulative_errors = InitErrors(Base("ConnectorInsertionCount"))
    /\ data = <<>>
    /\ pc = "running"
    /\ exc = "none"
    /\ current_severity = 0
    /\ flap_probability = 0
    /\ NoServer
    /\ NoClient

\* one iteration of the thermal tick loop
LinkThermalTick ==
    /\ pc = "running" /\ scenario = "Thermal"
    /\ i < Len(timestamps)
    /\ LET current_temp == curve[i + 1] IN
         /\ current_severity' = current_temp
         /\ flap_probability' = ThermalFlapProbability(current_temp)
         /\ \E l \in ThermalLink(last_link_state, link_flap_cooldown, current_temp) :
            \E ce \in ThermalCounters(cumulative_errors, l.link_state, current_temp) :
              /\ last_link_state' = l.last_link_state
              /\ link_flap_cooldown' = l.link_flap_cooldown
              /\ cumulative_errors' = ce
              /\ data' = << ThermalRow(timestamps[i + 1], l.link_state, current_temp, ce) >>
    /\ i' = i + 1
    /\ UNCHANGED <<call, server, sink, curve, built_curve, port, pc, exc>>

LinkMechTickAfterReseat ==
    /\ pc = "running" /\ scenario = "Mechanical"
    /\ i < Len(timestamps)
    /\ LET current_degradation == curve[i + 1] IN
         /\ flap_probability' = MechFlapProbability(current_degradation)
         /\ \E l \in MechLink(last_link_state, link_flap_cooldown, current_degradation) :
            \E c \in MechCounters(cumulative_errors, l.link_state, current_degradation) :
              LET ce == IF Reseat(i, l.link_state)
                        THEN [c EXCEPT !.ConnectorInsertionCount = @ + 1]
                        ELSE c
                  reseated == IF Reseat(i, l.link_state)
                              THEN Reseated(curve, i) ELSE curve
              IN  /\ last_link_state' = l.last_link_state
                  /\ link_flap_cooldown' = l.link_flap_cooldown
                  /\ cumulative_errors' = ce
                  /\ curve' = reseated
                  /\ current_severity' = reseated[i + 1]
                  /\ data' = << MechRow(timestamps[i + 1], l.link_state,
                                        reseated[i + 1], ce) >>
    /\ i' = i + 1
    /\ UNCHANGED <<call, server, sink, built_curve, port, pc, exc>>

\* one iteration of the mechanical tick loop, the reseat included
LinkMechTick ==
    /\ pc = "running" /\ scenario = "Mechanical"
    /\ i < Len(timestamps)
    /\ LET current_degradation == curve[i + 1] IN
         /\ current_severity' = current_degradation
         /\ flap_probability' = MechFlapProbability(current_degradation)
         /\ \E l \in MechLink(last_link_state, link_flap_cooldown, current_degradation) :
            \E c \in MechCounters(cumulative_errors, l.link_state, current_degradation) :
              LET ce == IF Reseat(i, l.link_state)
                        THEN [c EXCEPT !.ConnectorInsertionCount = @ + 1]
                        ELSE c
              IN  /\ last_link_state' = l.last_link_state
                  /\ link_flap_cooldown' = l.link_flap_cooldown
                  /\ cumulative_errors' = ce
                  /\ curve' = IF Reseat(i, l.link_state)
                              THEN Reseated(curve, i) ELSE curve
                  /\ data' = << MechRow(timestamps[i + 1], l.link_state,
                                        current_degradation, ce) >>
    /\ i' = i + 1
    /\ UNCHANGED <<call, server, sink, built_curve, port, pc, exc>>

LinkNext ==
    \/ LinkThermalTick
    \/ LinkMechTick
    \/ Return

LinkSpec == LinkInit /\ [][LinkNext]_vars

(***************************************************************************)
(* The link decisions of one series, kept tick by tick: the tick loops of  *)
(* LinkSpec on a series of HoldTicks ticks, where data holds, for every    *)
(* tick taken, the linkState of its record and the value of the local      *)
(* link_flap_cooldown after its link decision.                             *)
(***************************************************************************)
\* the series has HoldTicks ticks
HoldTicks == 14

HoldInit ==
    /\ scenario \in {"Thermal", "Mechanical"}
    /\ total_points = HoldTicks
    /\ interval_seconds = 1
    /\ duration = total_points
    /\ port_count = 1
    /\ end_time = MaxNow
    /\ start_time = end_time - duration
    /\ timestamps = Timestamps(start_time, interval_seconds, total_points)
    /\ \E shift \in 0 .. MaxShift :
         curve = IF scenario = "Thermal" THEN ThermalCurveOf(total_points, shift)
                 ELSE MechCurveOf(total_points, shift)
    /\ built_curve = curve
    /\ port = 0
    /\ i = 0
    /\ last_link_state = "up"
    /\ link_flap_cooldown = 0
    /\ cumulative_errors = InitErrors(Base("ConnectorInsertionCount"))
    /\ data = <<>>
    /\ pc = "running"
    /\ exc = "none"
    /\ current_severity = 0
    /\ flap_probability = 0
    /\ NoServer
    /\ NoClient

\* what is kept of a tick: the linkState of the record and the cooldown left
Decision(l) ==
    [linkState |-> l.link_state, link_flap_cooldown |-> l.link_flap_cooldown]

\* one iteration of the thermal tick loop
HoldThermalTick ==
    /\ pc = "running" /\ scenario = "Thermal"
    /\ i < Len(timestamps)
    /\ LET current_temp == curve[i + 1] IN
         /\ current_severity' = current_temp
         /\ flap_probability' = ThermalFlapProbability(current_temp)
         /\ \E l \in ThermalLink(last_link_state, link_flap_cooldown, current_temp) :
            \E ce \in ThermalCounters(cumulative_errors, l.link_state, current_temp) :
              /\ last_link_state' = l.last_link_state
              /\ link_flap_cooldown' = l.link_flap_cooldown
              /\ cumulative_errors' = ce
              /\ data' = Append(data, Decision(l))
    /\ i' = i + 1
    /\ UNCHANGED <<call, server, sink, curve, built_curve, port, pc, exc>>

\* one iteration of the mechanical tick loop
HoldMechTick ==
    /\ pc = "running" /\ scenario = "Mechanical"
    /\ i < Len(timestamps)
    /\ LET current_degradation == curve[i + 1] IN
         /\ current_severity' = current_degradation
         /\ flap_probability' = MechFlapProbability(current_degradation)
         /\ \E l \in MechLink(last_link_state, link_flap_cooldown, current_degradation) :
            \E c \in MechCounters(cumulative_errors, l.link_state, current_degradation) :
              /\ last_link_state' = l.last_link_state
              /\ link_flap_cooldown' = l.link_flap_cooldown
              /\ cumulative_errors' =
                    IF Reseat(i, l.link_state)
                    THEN [c EXCEPT !.ConnectorInsertionCount = @ + 1] ELSE c
              /\ curve' = IF Reseat(i, l.link_state)
                          THEN Reseated(curve, i) ELSE curve
              /\ data' = Append(data, Decision(l))
    /\ i' = i + 1
    /\ UNCHANGED <<call, server, sink, built_curve, port, pc, exc>>

HoldNext ==
    \/ HoldThermalTick
    \/ HoldMechTick

HoldSpec == HoldInit /\ [][HoldNext]_vars

(***************************************************************************)
(* The mechanical scenario of 600 ticks (10 minutes at 1 s): the tick loop *)
(* of LinkSpec on curves built as the four loops of the generator build    *)
(* them.  A curve of the family takes one draw for the noise of every      *)
(* moderate tick, one for the discrete jitter of the severe ticks that     *)
(* draw one (random.randint(5, 10) gives 5 at every tick), and one for the *)
(* noise of the other severe ticks.                                        *)
(***************************************************************************)
\* the draws of a curve: np.random.normal(0, 0.3), np.random.choice([...]),
\* np.random.normal(0, 0.5)
SevereDraws ==
    { d \in [noise : NormalDraws((3 * Unit) \div 10),
             jump : {-(Unit \div 2), 2 * Unit},
             jitter : NormalDraws(Unit \div 2)] :
        (d.noise < 0) = (d.jitter < 0) /\ (d.noise < 0) = (d.jump < 0) }

\* optical_degradation after the four loops, for n ticks and the given draws
MechCurveBuilt(n, d) ==
    LET normal == IntFrac(n, 2)
        early == IntFrac(n, 2)
        moderate == IntFrac(n, 3)
        EarlyAt(k) == TruncDiv(k * Unit, early)
        early_last == IF early > 0 THEN EarlyAt(early - 1) ELSE 0
        ModerateAt(k) == early_last + TruncDiv(k * 2 * Unit, moderate) + d.noise
        moderate_last == IF moderate > 0 THEN ModerateAt(moderate - 1) ELSE early_last
        SevereAt(k) == moderate_last + 2 * Unit
                          + (IF k % 5 = 0 THEN d.jump ELSE d.jitter)
    IN  [j \in 1 .. n |->
            IF j - 1 < normal THEN 0
            ELSE IF j - 1 < normal + early THEN EarlyAt(j - 1 - normal)
            ELSE IF j - 1 < normal + early + moderate
                 THEN ModerateAt(j - 1 - normal - early)
                 ELSE SevereAt(j - 1 - normal - early - moderate)]

SevereInit ==
    /\ scenario = "Mechanical"
    /\ total_points = 600
    /\ interval_seconds = 1
    /\ duration = total_points
    /\ port_count = 1
    /\ end_time = MaxNow
    /\ start_time = end_time - duration
    /\ timestamps = Timestamps(start_time, interval_seconds, total_points)
    /\ \E d \in SevereDraws : curve = MechCurveBuilt(total_points, d)
    /\ built_curve = curve
    /\ port = 0
    /\ i = 0
    /\ last_link_state = "up"
    /\ link_flap_cooldown = 0
    /\ cumulative_errors = InitErrors(Base("ConnectorInsertionCount"))
    /\ data = <<>>
    /\ pc = "running"
    /\ exc = "none"
    /\ current_severity = 0
    /\ flap_probability = 0
    /\ NoServer
    /\ NoClient

SevereNext ==
    \/ LinkMechTick
    \/ Return

SevereSpec == SevereInit /\ [][SevereNext]_vars

(***************************************************************************)
(* The first three loops that build optical_degradation, on series long    *)
(* enough for the early and moderate ramps to have several steps.          *)
(***************************************************************************)
RampTicks == 20

RampInit ==
    /\ scenario = "Mechanical"
    /\ total_points \in {RampTicks \div 2, RampTicks}
    /\ interval_seconds = 1
    /\ duration = total_points
    /\ port_count = 1
    /\ end_time = MaxNow
    /\ start_time = end_time - duration
    /\ timestamps = Timestamps(start_time, interval_seconds, total_points)
    /\ curve = <<>>
    /\ port = 0
    /\ i = 0
    /\ last_link_state = "up"
    /\ link_flap_cooldown = 0
    /\ cumulative_errors = InitErrors(Base("ConnectorInsertionCount"))
    /\ data = <<>>
    /\ pc = "running"
    /\ exc = "none"
    /\ NoTickLocals
    /\ NoServer
    /\ NoClient

RampNext ==
    \/ MechNormal
    \/ MechEarly
    \/ MechModerate

RampSpec == RampInit /\ [][RampNext]_vars

(***************************************************************************)
(* telemetry_server.py: one call of TelemetryServicer.SubscribeTelemetry.  *)
(* The servicer calls the thermal generator, filters the frame, yields one *)
(* TelemetryData per row and sleeps after each, then calls the generator   *)
(* again.  servicer.at is the position in the method; the generator runs   *)
(* as in Spec, on a series shortened to ServerTicks ticks, and every call  *)
(* reads the wall clock as MaxNow.  servicer.delivered and servicer.slept   *)
(* record what has happened: a record was yielded, the seconds slept since *)
(* the last yield.                                                         *)
(***************************************************************************)
\* the series of a subscription has ServerTicks ticks (minutes * 60 in the
\* code)
ServerTicks == 4

\* request.port == "": no filter
NoPort == <<>>

\* the values of request.port: none, the port of the series, another port
RequestPorts == {NoPort, PortName(1), PortName(2)}

\* no message is being handed to the transport
NoEntry == [port |-> NoPort]

\* str(row['timestamp'])
Str(ts) == <<"str", ts>>

WireFloatNull(m, cell) == cell

\* float(row[m]) if not pd.isnull(row[m]) else 0.0; the totals of the FEC and
\* CRC counters are integers in the row and floats on the wire
WireFloat(m, cell) ==
    IF IsNone(cell) THEN Exact(0)
    ELSE IF m \in Counters THEN Exact(cell.v * Unit)
    ELSE cell

\* int(row['ConnectorInsertionCount']) if not pd.isnull(...) else 0
WireInt(cell) == IF IsNone(cell) THEN Exact(0) ELSE Exact(cell.v)

\* telemetry_pb2.TelemetryData(...) of one row
TelemetryData(row) ==
    [timestamp |-> Str(row.timestamp), port |-> row.port, linkState |-> row.linkState]
        @@ [m \in MetricSet |->
              IF m = "ConnectorInsertionCount" THEN WireInt(row[m])
              ELSE WireFloat(m, row[m])]

FilteredNever(df, request_port) == df

\* df[df['port'] == request.port] if request.port else df
Filtered(df, request_port) ==
    IF request_port # NoPort
    THEN SelectSeq(df, LAMBDA row : row.port = request_port)
    ELSE df

\* the generator's counters when no call of it is active
UnboundErrors ==
    [FEC_Correctable |-> -1, FEC_Uncorrectable |-> -1, CRCErrorCount |-> -1,
     ConnectorInsertionCount |-> -1]

\* no call of the generator is active: its locals are bound to nothing
Unbound ==
    /\ curve = <<>>
    /\ i = 0
    /\ last_link_state = "unbound"
    /\ link_flap_cooldown = -1
    /\ cumulative_errors = UnboundErrors

\* the generator has returned: the locals of its frame are gone
ReleaseFrame ==
    /\ curve' = <<>>
    /\ i' = 0
    /\ last_link_state' = "unbound"
    /\ link_flap_cooldown' = -1
    /\ cumulative_errors' = UnboundErrors

ServerInit ==
    /\ scenario = "Thermal"
    /\ interval_seconds = 1
    /\ duration = ServerTicks * interval_seconds
    /\ port_count = 1
    /\ end_time = MaxNow
    /\ total_points = TruncDiv(duration, interval_seconds)
    /\ start_time = end_time - duration
    /\ timestamps = Timestamps(start_time, interval_seconds, total_points)
    /\ Unbound
    /\ port = 0
    /\ data = <<>>
    /\ pc = "idle"
    /\ exc = "none"
    /\ NoTickLocals
    /\ NoClient
    /\ workers = <<>>
    /\ random_state = 0
    /\ \E request_port \in RequestPorts :
         servicer = [at |-> "call", request_port |-> request_port,
                     filtered_data |-> <<>>, index |-> 0, yielded |-> NoEntry,
                     slept |-> 0, delivered |-> FALSE]

ServerCallStale ==
    /\ servicer.at = "call"
    /\ servicer' = [servicer EXCEPT !.at = "building"]
    /\ curve' = <<>>
    /\ i' = 0
    /\ data' = <<>>
    /\ pc' = "running"
    /\ UNCHANGED <<call, tick_locals, workers, random_state, sink, port,
                   last_link_state, link_flap_cooldown, cumulative_errors, exc>>

\* df = thermal_telemetry_generator(minutes=minutes, interval_seconds=interval_seconds):
\* the call starts with the locals of a new frame
ServerCall ==
    /\ servicer.at = "call"
    /\ servicer' = [servicer EXCEPT !.at = "building"]
    /\ scenario' = "Thermal"
    /\ interval_seconds' = 1
    /\ duration' = ServerTicks * interval_seconds'
    /\ port_count' = 1
    /\ end_time' = MaxNow
    /\ total_points' = TruncDiv(duration', interval_seconds')
    /\ start_time' = end_time' - duration'
    /\ timestamps' = Timestamps(start_time', interval_seconds', total_points')
    /\ curve' = <<>>
    /\ port' = 0
    /\ i' = 0
    /\ last_link_state' = "up"
    /\ link_flap_cooldown' = 0
    /\ cumulative_errors' = InitErrors(Base("ConnectorInsertionCount"))
    /\ data' = <<>>
    /\ pc' = "running"
    /\ exc' = "none"
    /\ UNCHANGED <<tick_locals, workers, random_state, sink>>

\* the call has returned df; filtered_data = df, or the rows of the
\* requested port
ServerFilter ==
    /\ servicer.at = "building" /\ pc = "done"
    /\ servicer' = [servicer EXCEPT
                      !.at = "iterating",
                      !.filtered_data = Filtered(data, servicer.request_port),
                      !.index = 0]
    /\ ReleaseFrame
    /\ pc' = "idle"
    /\ UNCHANGED <<call, tick_locals, workers, random_state, sink, port, data, exc>>

\* for _, row in filtered_data.iterrows(): ... yield telemetry_entry
ServerYield ==
    /\ servicer.at = "iterating"
    /\ servicer.index < Len(servicer.filtered_data)
    /\ servicer' = [servicer EXCEPT
                      !.at = "yielded",
                      !.index = @ + 1,
                      !.yielded = TelemetryData(servicer.filtered_data[servicer.index + 1]),
                      !.slept = 0,
                      !.delivered = TRUE]
    /\ UNCHANGED <<call, tick_locals, workers, random_state, sink, curve, port, i,
                   last_link_state, link_flap_cooldown, cumulative_errors,
                   data, pc, exc>>

ServerNoSleep ==
    /\ servicer.at = "yielded"
    /\ servicer' = [servicer EXCEPT !.at = "iterating", !.yielded = NoEntry]
    /\ UNCHANGED <<call, tick_locals, workers, random_state, sink, curve, port, i,
                   last_link_state, link_flap_cooldown, cumulative_errors,
                   data, pc, exc>>

\* the transport asks for the next message: time.sleep(interval_seconds)
ServerSleep ==
    /\ servicer.at = "yielded"
    /\ servicer' = [servicer EXCEPT
                      !.at = "iterating",
                      !.yielded = NoEntry,
                      !.slept = @ + interval_seconds]
    /\ UNCHANGED <<call, tick_locals, workers, random_state, sink, curve, port, i,
                   last_link_state, link_flap_cooldown, cumulative_errors,
                   data, pc, exc>>

ServerEnd ==
    /\ servicer.at = "iterating"
    /\ servicer.index = Len(servicer.filtered_data)
    /\ servicer' = [servicer EXCEPT !.at = "ended", !.filtered_data = <<>>, !.index = 0]
    /\ UNCHANGED <<call, tick_locals, workers, random_state, sink, curve, port, i,
                   last_link_state, link_flap_cooldown, cumulative_errors,
                   data, pc, exc>>

\* the for loop is exhausted: while True goes round again
ServerLoop ==
    /\ servicer.at = "iterating"
    /\ servicer.index = Len(servicer.filtered_data)
    /\ servicer' = [servicer EXCEPT !.at = "call", !.filtered_data = <<>>, !.index = 0]
    /\ UNCHANGED <<call, tick_locals, workers, random_state, sink, curve, port, i,
                   last_link_state, link_flap_cooldown, cumulative_errors,
                   data, pc, exc>>

\* the subscriber cancels: the method, suspended at its yield, is closed and
\* the frames it holds are released
ServerCancel ==
    /\ servicer.at = "yielded"
    /\ servicer' = [servicer EXCEPT !.at = "cancelled", !.yielded = NoEntry,
                                    !.filtered_data = <<>>, !.index = 0, !.slept = 0]
    /\ data' = <<>>
    /\ UNCHANGED <<call, tick_locals, workers, random_state, sink, curve, port, i,
                   last_link_state, link_flap_cooldown, cumulative_errors, pc, exc>>

\* the steps the worker thread takes by itself
ServerRun ==
    \/ ServerCall
    \/ ThermalNormal
    \/ ThermalRising
    \/ ThermalHigh
    \/ ThermalTick
    \/ Return
    \/ ServerFilter
    \/ ServerYield
    \/ ServerSleep
    \/ ServerLoop

ServerNext ==
    \/ ServerRun
    \/ ServerCancel

ServerSpec == ServerInit /\ [][ServerNext]_vars

\* the requests of the subscriptions that are followed for ever: the one the
\* client sends (port="") and one that names a port the series does not have
StreamPorts == {NoPort, PortName(2)}

StreamInit == ServerInit /\ servicer.request_port \in StreamPorts

\* a worker thread that can take a step takes one
StreamSpec == StreamInit /\ [][ServerNext]_vars /\ WF_vars(ServerRun)

(***************************************************************************)
(* The worker threads of the pool (telemetry_server.py, serve).  Each      *)
(* subscription runs SubscribeTelemetry, and with it the tick loop of      *)
(* thermal_telemetry_generator, in a thread of its own: last_link_state,   *)
(* link_flap_cooldown and cumulative_errors are locals of the thread's     *)
(* call, while random.random() and random.randint() read the one generator *)
(* of the random module, which every thread of the process shares.  The    *)
(* generator is followed by its state: a number drawn is a function of the *)
(* state, and drawing moves the state on (a fixed mixing function stands   *)
(* for the twister, the start state for the seed).  A thread may be        *)
(* pre-empted between any two draws.  The threads are followed through the *)
(* link decision and the FEC_Correctable counter of each tick, at the      *)
(* target temperature.                                                     *)
(***************************************************************************)
PoolTicks == 3
MaxSeed == 2

\* the threads of the two subscriptions that can be served at the same time
Threads == {1, 2}

\* random.random() in the given state of the generator, in units of 1/Unit
RandomValue(state) == (state * 3571) % Unit

\* random.randint(lo, hi) in the given state of the generator
RandInt(lo, hi, state) == lo + (RandomValue(state) % (hi - lo + 1))

\* current_temp of the ticks that are followed
PoolTemp == target_temp

\* a thread of the pool that serves no subscription
IdleWorker ==
    [at |-> "idle", i |-> 0, last_link_state |-> "unbound",
     link_state |-> "unbound", link_flap_cooldown |-> -1,
     FEC_Correctable |-> -1, draws |-> <<>>, link_states |-> <<>>]

PoolInit ==
    /\ scenario = "Thermal"
    /\ interval_seconds = 1
    /\ duration = PoolTicks * interval_seconds
    /\ port_count = 1
    /\ end_time = MaxNow
    /\ total_points = TruncDiv(duration, interval_seconds)
    /\ start_time = end_time - duration
    /\ timestamps = Timestamps(start_time, interval_seconds, total_points)
    /\ Unbound
    /\ port = 0
    /\ data = <<>>
    /\ pc = "idle"
    /\ exc = "none"
    /\ NoTickLocals
    /\ NoClient
    /\ servicer = [at |-> "none"]
    /\ workers = [t \in Threads |-> IdleWorker]
    /\ random_state \in 0 .. MaxSeed

\* the variables of the one call that the other specifications follow
one_call == <<call, tick_locals, servicer, curve, port, i, last_link_state,
              link_flap_cooldown, cumulative_errors, data, pc, exc>>

\* the row of the tick is appended and the loop goes to the next timestamp
NextTick(w) ==
    [w EXCEPT !.link_states = Append(@, w.link_state),
              !.i = @ + 1,
              !.at = IF w.i + 1 = total_points THEN "done" ELSE "link"]

\* The link states of the first n ticks of a call that draws alone from the
\* generator, which is in the given state at the first tick.
RECURSIVE AloneLinkStates(_, _, _, _)
AloneLinkStates(last, cooldown, state, n) ==
    IF n = 0 THEN <<>>
    ELSE LET flap == cooldown = 0
                       /\ RandomValue(state) < ThermalFlapProbability(PoolTemp)
             link_state == IF flap THEN Flip(last) ELSE last
             drawn == IF cooldown > 0 THEN 0 ELSE IF flap THEN 2 ELSE 1
             next_cooldown == IF cooldown > 0 THEN cooldown - 1
                              ELSE IF flap
                              THEN RandInt(ThermalCooldownMin, ThermalCooldownMax,
                                           state + 1)
                              ELSE 0
             errors_drawn == IF link_state = "up" THEN 1 ELSE 0
         IN  <<link_state>> \o AloneLinkStates(link_state, next_cooldown,
                                               state + drawn + errors_drawn, n - 1)

\* a subscription arrives and a thread calls the generator: last_link_state
\* = "up", link_flap_cooldown = 0, cumulative_errors = {...: 0}
PoolSubscribe(t) ==
    /\ workers[t].at = "idle"
    /\ workers' = [workers EXCEPT ![t] =
                     [at |-> "link", i |-> 0, last_link_state |-> "up",
                      link_state |-> "unbound", link_flap_cooldown |-> 0,
                      FEC_Correctable |-> 0, draws |-> <<>>, link_states |-> <<>>]]
    /\ UNCHANGED <<one_call, random_state, sink>>

PoolHoldShared(t) ==
    /\ workers[t].at = "link"
    /\ workers[t].link_flap_cooldown > 0
    /\ workers' = [u \in Threads |->
                     IF u = t
                     THEN [workers[t] EXCEPT !.link_flap_cooldown = @ - 1,
                                             !.link_state = workers[t].last_link_state,
                                             !.at = "errors"]
                     ELSE IF workers[u].at \in {"idle", "done"} THEN workers[u]
                     ELSE [workers[u] EXCEPT !.link_flap_cooldown =
                                                workers[t].link_flap_cooldown - 1]]
    /\ UNCHANGED <<one_call, random_state, sink>>

\* if link_flap_cooldown > 0: link_flap_cooldown -= 1; link_state = last_link_state
PoolHold(t) ==
    /\ workers[t].at = "link"
    /\ workers[t].link_flap_cooldown > 0
    /\ workers' = [workers EXCEPT ![t] =
                     [@ EXCEPT !.link_flap_cooldown = @ - 1,
                               !.link_state = workers[t].last_link_state,
                               !.at = "errors"]]
    /\ UNCHANGED <<one_call, random_state, sink>>

\* else: if random.random() < flap_probability: link_state is the other
\* state; else: link_state = last_link_state
PoolTrial(t) ==
    /\ workers[t].at = "link"
    /\ workers[t].link_flap_cooldown = 0
    /\ LET flap == RandomValue(random_state) < ThermalFlapProbability(PoolTemp)
       IN  workers' = [workers EXCEPT ![t] =
                         [@ EXCEPT !.draws = Append(@, random_state),
                                   !.link_state = IF flap THEN Flip(workers[t].last_link_state)
                                                  ELSE workers[t].last_link_state,
                                   !.at = IF flap THEN "cooldown" ELSE "errors"]]
    /\ random_state' = random_state + 1
    /\ UNCHANGED <<one_call, sink>>

\* link_flap_cooldown = random.randint(3, 10); last_link_state = link_state
PoolCooldown(t) ==
    /\ workers[t].at = "cooldown"
    /\ workers' = [workers EXCEPT ![t] =
                     [@ EXCEPT !.draws = Append(@, random_state),
                               !.link_flap_cooldown =
                                   RandInt(ThermalCooldownMin, ThermalCooldownMax,
                                           random_state),
                               !.last_link_state = workers[t].link_state,
                               !.at = "errors"]]
    /\ random_state' = random_state + 1
    /\ UNCHANGED <<one_call, sink>>

\* if link_state == "up": if random.random() < 0.1 * error_factor:
\* cumulative_errors['FEC_Correctable'] += max(0, int(np.random.normal(...)))
PoolErrors(t) ==
    /\ workers[t].at = "errors"
    /\ workers[t].link_state = "up"
    /\ LET event == RandomValue(random_state) < ThermalErrorFactor(PoolTemp) \div 10
       IN  \E n \in NewErrors({event}) :
             workers' = [workers EXCEPT ![t] =
                           NextTick([@ EXCEPT !.draws = Append(@, random_state),
                                              !.FEC_Correctable = @ + n])]
    /\ random_state' = random_state + 1
    /\ UNCHANGED <<one_call, sink>>

\* else (the link is down): the counters are left alone
PoolDown(t) ==
    /\ workers[t].at = "errors"
    /\ workers[t].link_state = "down"
    /\ workers' = [workers EXCEPT ![t] = NextTick(@)]
    /\ UNCHANGED <<one_call, random_state, sink>>

PoolNext ==
    \E t \in Threads :
        \/ PoolSubscribe(t)
        \/ PoolHold(t)
        \/ PoolTrial(t)
        \/ PoolCooldown(t)
        \/ PoolErrors(t)
        \/ PoolDown(t)

PoolSpec == PoolInit /\ [][PoolNext]_vars
(***************************************************************************)
(* telemetry_server.py: serve().  The subscriptions and the pool of        *)
(* grpc.server(futures.ThreadPoolExecutor(max_workers=10)).  Every         *)
(* SubscribeTelemetry call is submitted to the executor, which queues it   *)
(* until one of its max_workers threads is free; the thread that takes it  *)
(* runs the `while True` loop of the call and is held by it until the      *)
(* subscriber cancels, which the loop meets at a yield.  The subscribers   *)
(* are numbered in the order of their calls, and a subscription is         *)
(* followed to its first record.                                           *)
(***************************************************************************)
max_workers == 10
\* the calls that are followed
MaxSubscribers == 11

Subscribers == 1 .. MaxSubscribers

\* the subscriptions whose call holds a thread of the pool
Held(status) == {s \in Subscribers : status[s] \in {"running", "streaming"}}

ExecutorInit ==
    /\ scenario = "Thermal"
    /\ interval_seconds = 1
    /\ duration = PoolTicks * interval_seconds
    /\ port_count = 1
    /\ end_time = MaxNow
    /\ total_points = TruncDiv(duration, interval_seconds)
    /\ start_time = end_time - duration
    /\ timestamps = Timestamps(start_time, interval_seconds, total_points)
    /\ Unbound
    /\ port = 0
    /\ data = <<>>
    /\ pc = "idle"
    /\ exc = "none"
    /\ NoTickLocals
    /\ NoClient
    /\ servicer = [at |-> "none"]
    /\ workers = [s \in Subscribers |-> "absent"]
    /\ random_state = 0

\* a subscriber calls SubscribeTelemetry: the call is submitted to the executor
ExecutorSubmit(s) ==
    /\ workers[s] = "absent"
    /\ \A earlier \in 1 .. s - 1 : workers[earlier] # "absent"
    /\ workers' = [workers EXCEPT ![s] = "queued"]
    /\ UNCHANGED <<one_call, random_state, sink>>

ExecutorStartAny(s) ==
    /\ workers[s] = "queued"
    /\ \A earlier \in 1 .. s - 1 : workers[earlier] # "queued"
    /\ workers' = [workers EXCEPT ![s] = "running"]
    /\ UNCHANGED <<one_call, random_state, sink>>

\* a free thread of the pool takes the call that has waited longest
ExecutorStart(s) ==
    /\ workers[s] = "queued"
    /\ \A earlier \in 1 .. s - 1 : workers[earlier] # "queued"
    /\ Cardinality(Held(workers)) < max_workers
    /\ workers' = [workers EXCEPT ![s] = "running"]
    /\ UNCHANGED <<one_call, random_state, sink>>

\* the call builds its first series and yields the first record of it
ExecutorDeliver(s) ==
    /\ workers[s] = "running"
    /\ workers' = [workers EXCEPT ![s] = "streaming"]
    /\ UNCHANGED <<one_call, random_state, sink>>

\* the subscriber cancels: the loop ends at its yield and the thread is free
ExecutorCancel(s) ==
    /\ workers[s] = "streaming"
    /\ workers' = [workers EXCEPT ![s] = "gone"]
    /\ UNCHANGED <<one_call, random_state, sink>>

\* the steps that the server takes by itself
ExecutorRun ==
    \E s \in Subscribers : ExecutorStart(s) \/ ExecutorDeliver(s)

ExecutorNext ==
    \/ \E s \in Subscribers : ExecutorSubmit(s)
    \/ \E s \in Subscribers : ExecutorStart(s)
    \/ \E s \in Subscribers : ExecutorDeliver(s)
    \/ \E s \in Subscribers : ExecutorCancel(s)

\* A free thread takes a waiting call and a running call reaches its first
\* yield; no subscriber has to cancel.
ExecutorSpec == ExecutorInit /\ [][ExecutorNext]_vars /\ WF_vars(ExecutorRun)

(***************************************************************************)
(* The clock of one subscription.  The delivery loop of ServerSpec with    *)
(* the wall clock followed: servicer.now is the time in half seconds,      *)
(* read by the generator (datetime.now().replace(microsecond=0)) and       *)
(* advanced by the build and by every sleep; servicer.last is the          *)
(* timestamp of the record delivered last.  The generator call is one      *)
(* step, and its frame holds the rows of a series with the link up at the  *)
(* target temperature: what is followed is the timestamps.                 *)
(***************************************************************************)
\* the series has ReplayTicks ticks
ReplayTicks == 3
\* the subscription is followed for MaxRounds builds
MaxRounds == 3
\* a build or a sleep takes up to MaxOverrun half seconds more than it must
MaxOverrun == 1

\* datetime.now().replace(microsecond=0), of a clock in half seconds
WholeSeconds(now) == now \div 2

\* the frame of thermal_telemetry_generator called at end, in a series of n
\* ticks of interval seconds
ReplayFrame(end, interval, n) ==
    [k \in 1 .. n |->
        ThermalRow(Timestamps(end - n * interval, interval, n)[k], "up",
                   target_temp, InitErrors(Base("ConnectorInsertionCount")))]

ReplayInit ==
    /\ scenario = "Thermal"
    /\ interval_seconds = 1
    /\ duration = ReplayTicks * interval_seconds
    /\ port_count = 1
    /\ end_time = MaxNow
    /\ total_points = TruncDiv(duration, interval_seconds)
    /\ start_time = end_time - duration
    /\ timestamps = Timestamps(start_time, interval_seconds, total_points)
    /\ Unbound
    /\ port = 0
    /\ data = <<>>
    /\ pc = "idle"
    /\ exc = "none"
    /\ NoTickLocals
    /\ NoClient
    /\ workers = <<>>
    /\ random_state = 0
    /\ \E request_port \in RequestPorts, half \in 0 .. 1 :
         servicer = [at |-> "call", request_port |-> request_port,
                     filtered_data |-> <<>>, index |-> 0, yielded |-> NoEntry,
                     slept |-> 0, delivered |-> FALSE,
                     now |-> 2 * MaxNow + half, last |-> NoEntry, builds |-> 0]

\* df = thermal_telemetry_generator(minutes=minutes, interval_seconds=interval_seconds),
\* from the call to the return of the frame
ReplayCall ==
    /\ servicer.at = "call"
    /\ servicer.builds < MaxRounds
    /\ \E took \in 0 .. MaxOverrun :
         servicer' = [servicer EXCEPT !.at = "building", !.builds = @ + 1,
                                      !.now = @ + took]
    /\ end_time' = WholeSeconds(servicer.now)
    /\ start_time' = end_time' - duration
    /\ timestamps' = Timestamps(start_time', interval_seconds, total_points)
    /\ data' = ReplayFrame(end_time', interval_seconds, total_points)
    /\ pc' = "done"
    /\ UNCHANGED <<scenario, port_count, duration, interval_seconds, total_points,
                   tick_locals, workers, random_state, sink, curve, port, i,
                   last_link_state, link_flap_cooldown, cumulative_errors, exc>>

ReplaySleepNone ==
    /\ servicer.at = "yielded"
    /\ servicer' = [servicer EXCEPT
                      !.at = "iterating",
                      !.yielded = NoEntry,
                      !.last = servicer.yielded,
                      !.slept = @ + interval_seconds]
    /\ UNCHANGED <<call, tick_locals, workers, random_state, sink, curve, port, i,
                   last_link_state, link_flap_cooldown, cumulative_errors,
                   data, pc, exc>>

\* time.sleep(interval_seconds): the clock advances by the interval or more
ReplaySleep ==
    /\ servicer.at = "yielded"
    /\ \E over \in 0 .. MaxOverrun :
         servicer' = [servicer EXCEPT
                        !.at = "iterating",
                        !.yielded = NoEntry,
                        !.last = servicer.yielded,
                        !.slept = @ + interval_seconds,
                        !.now = @ + 2 * interval_seconds + over]
    /\ UNCHANGED <<call, tick_locals, workers, random_state, sink, curve, port, i,
                   last_link_state, link_flap_cooldown, cumulative_errors,
                   data, pc, exc>>

ReplayNext ==
    \/ ReplayCall
    \/ ServerFilter
    \/ ServerYield
    \/ ReplaySleep
    \/ ServerLoop

ReplaySpec == ReplayInit /\ [][ReplayNext]_vars

(***************************************************************************)
(* telemetry_client.py: run().  The client initialises the table of the    *)
(* store, connects, subscribes and inserts every record of the stream.     *)
(* client.at is the position in run(); client.conn the state of the        *)
(* connection in use ("ready", "aborted": a statement failed and the       *)
(* transaction waits for its rollback, "closed": the connection is lost    *)
(* and every call on it raises); client.drop, client.create and            *)
(* client.insert record what became of the statements, client.rollback     *)
(* whether the last insert called conn.rollback().  questdb is the table:  *)
(* whether it exists, and its committed rows.                              *)
(***************************************************************************)
\* the records of the subscription that the client is followed for
ClientRecords == 3

\* what becomes of a statement and its commit: both are done, the store
\* refuses one of them, the connection is lost
Outcomes == {"ok", "error", "lost"}

\* switch_id = "switch1"
SwitchId == "switch1"

\* datetime.now() in insert_telemetry: after the generator's call and the
\* time.sleep(5) of run()
ClientNow == MaxNow + 5

\* datetime.strptime(s, "%Y-%m-%d %H:%M:%S"): the text that str() gives for a
\* time of whole seconds is parsed, any other text raises ValueError
StrptimeDateOnly(s) == [raised |-> TRUE, value |-> 0]

Strptime(s) ==
    IF Len(s) = 2 /\ s[1] = "str"
    THEN [raised |-> FALSE, value |-> s[2]]
    ELSE [raised |-> TRUE, value |-> 0]

\* timestamp.isoformat()
Isoformat(t) == <<"iso", t>>

\* timestamp_iso of insert_telemetry
TimestampIso(telemetry) ==
    LET timestamp == Strptime(telemetry.timestamp)
    IN  IF timestamp.raised THEN Isoformat(ClientNow)
        ELSE Isoformat(timestamp.value)

\* the values of the INSERT statement
InsertedRow(telemetry, switch_id) ==
    [timestamp |-> TimestampIso(telemetry), switch_id |-> switch_id,
     port |-> telemetry.port, linkState |-> telemetry.linkState]
        @@ [m \in MetricSet |-> telemetry[m]]

\* the k-th record of the stream, as the servicer builds it from the k-th
\* row of the thermal series
StreamRecords(k) ==
    { TelemetryData(ThermalRow(timestamps[k], link_state, temp, InitErrors(5))) :
        link_state \in {"up", "down"}, temp \in {Base("Temperature"), target_temp} }

\* a row left in the table by an earlier run of the client
OldRow ==
    InsertedRow(TelemetryData(ThermalRow(0, "up", target_temp, InitErrors(5))), SwitchId)

\* the outcomes a statement can have on a connection: none but failure on a
\* lost connection or in an aborted transaction, or when the store cannot
\* accept it
PossibleOutcomes(conn, acceptable) ==
    IF conn = "closed" THEN {"lost"}
    ELSE IF conn = "aborted" \/ ~acceptable THEN {"error", "lost"}
    ELSE Outcomes

\* the connection after a statement with this outcome
After(outcome, conn) ==
    CASE outcome = "ok" -> conn
      [] outcome = "error" -> "aborted"
      [] outcome = "lost" -> "closed"

RollbackNever(conn) == conn

\* conn.rollback(): ends the aborted transaction; on a lost connection it
\* raises and the connection stays lost
Rollback(conn) == IF conn = "closed" THEN "closed" ELSE "ready"

ClientInit ==
    /\ scenario = "Thermal"
    /\ interval_seconds = 1
    /\ duration = ClientRecords * interval_seconds
    /\ port_count = 1
    /\ end_time = MaxNow
    /\ total_points = TruncDiv(duration, interval_seconds)
    /\ start_time = end_time - duration
    /\ timestamps = Timestamps(start_time, interval_seconds, total_points)
    /\ Unbound
    /\ port = 0
    /\ data = <<>>
    /\ pc = "idle"
    /\ exc = "none"
    /\ NoTickLocals
    /\ NoServer
    /\ client = [at |-> "start", conn |-> "none", drop |-> "not attempted",
                 create |-> "not attempted", received |-> 0,
                 telemetry |-> NoEntry, insert |-> "none", rollback |-> "none"]
    /\ questdb \in {[table |-> FALSE, rows |-> <<>>],
                    [table |-> TRUE, rows |-> <<OldRow>>]}

generator_side == <<call, tick_locals, server, curve, port, i, last_link_state,
                    link_flap_cooldown, cumulative_errors, data, pc, exc>>

\* create_questdb_table(), to the end of its first try: psycopg2.connect,
\* DROP TABLE IF EXISTS and commit, or the rollback of the except clause
ClientDropTable ==
    /\ client.at = "start"
    /\ \/ /\ client' = [client EXCEPT !.at = "crashed", !.conn = "closed"]
          /\ UNCHANGED questdb
       \/ \E outcome \in Outcomes :
            LET conn == After(outcome, "ready")
            IN  /\ questdb' = IF outcome = "ok"
                              THEN [table |-> FALSE, rows |-> <<>>]
                              ELSE questdb
                /\ client' = [client EXCEPT
                      !.drop = IF outcome = "ok" THEN "ok" ELSE "failed",
                      !.conn = IF outcome = "ok" THEN conn ELSE Rollback(conn),
                      !.at = IF conn = "closed" THEN "crashed" ELSE "create"]
    /\ UNCHANGED generator_side

ClientCreateTableAfterDrop ==
    /\ client.at = "create"
    /\ IF client.drop = "failed"
       THEN /\ client' = [client EXCEPT !.at = "connect", !.conn = "closed"]
            /\ UNCHANGED questdb
       ELSE \E outcome \in PossibleOutcomes(client.conn, ~questdb.table) :
            LET conn == After(outcome, client.conn)
            IN  /\ questdb' = IF outcome = "ok"
                              THEN [table |-> TRUE, rows |-> <<>>]
                              ELSE questdb
                /\ client' = [client EXCEPT
                      !.create = IF outcome = "ok" THEN "ok" ELSE "failed",
                      !.conn = "closed",
                      !.at = IF conn = "closed" THEN "crashed" ELSE "connect"]
    /\ UNCHANGED generator_side

\* create_questdb_table(), its second try: CREATE TABLE and commit, or the
\* rollback of the except clause; then cursor.close() and conn.close().
\* The store refuses to create a table that exists.
ClientCreateTable ==
    /\ client.at = "create"
    /\ \E outcome \in PossibleOutcomes(client.conn, ~questdb.table) :
         LET conn == After(outcome, client.conn)
         IN  /\ questdb' = IF outcome = "ok"
                           THEN [table |-> TRUE, rows |-> <<>>]
                           ELSE questdb
             /\ client' = [client EXCEPT
                   !.create = IF outcome = "ok" THEN "ok" ELSE "failed",
                   !.conn = "closed",
                   !.at = IF conn = "closed" THEN "crashed" ELSE "connect"]
    /\ UNCHANGED generator_side

\* questdb_conn = psycopg2.connect(...), time.sleep(5), the channel and the
\* request; a failure to connect ends run()
ClientConnect ==
    /\ client.at = "connect"
    /\ \/ client' = [client EXCEPT !.at = "loop", !.conn = "ready"]
       \/ client' = [client EXCEPT !.at = "crashed"]
    /\ UNCHANGED <<generator_side, questdb>>

\* for telemetry in stub.SubscribeTelemetry(request): the next record
ClientReceive ==
    /\ client.at = "loop"
    /\ client.received < ClientRecords
    /\ \E telemetry \in StreamRecords(client.received + 1) :
         client' = [client EXCEPT !.at = "insert", !.telemetry = telemetry,
                                  !.received = @ + 1]
    /\ UNCHANGED <<generator_side, questdb>>

\* insert_telemetry(questdb_conn, telemetry, switch_id) inside the try of
\* run(): conn.cursor() raises on a lost connection; execute and commit
\* store the row, or the except clause rolls back; what insert_telemetry
\* raises is caught by run() and the loop takes the next record
ClientInsert ==
    /\ client.at = "insert"
    /\ IF client.conn = "closed"
       THEN /\ client' = [client EXCEPT !.at = "loop", !.insert = "failed",
                                        !.rollback = "not called"]
            /\ UNCHANGED questdb
       ELSE \E outcome \in PossibleOutcomes(client.conn, questdb.table) :
            LET conn == After(outcome, client.conn)
            IN  /\ questdb' = IF outcome = "ok"
                              THEN [questdb EXCEPT !.rows =
                                      Append(@, InsertedRow(client.telemetry, SwitchId))]
                              ELSE questdb
                /\ client' = [client EXCEPT
                      !.at = "loop",
                      !.insert = IF outcome = "ok" THEN "ok" ELSE "failed",
                      !.conn = IF outcome = "ok" THEN conn ELSE Rollback(conn),
                      !.rollback = IF outcome = "ok" THEN "not called"
                                   ELSE IF conn = "closed" THEN "raised"
                                   ELSE "returned"]
    /\ UNCHANGED generator_side

\* the stream raises or the user interrupts: the except clauses of run(),
\* and questdb_conn.close() of its finally
ClientStop ==
    /\ client.at = "loop"
    /\ client' = [client EXCEPT !.at = "ended", !.conn = "closed"]
    /\ UNCHANGED <<generator_side, questdb>>

ClientNext ==
    \/ ClientDropTable
    \/ ClientCreateTable
    \/ ClientConnect
    \/ ClientReceive
    \/ ClientInsert
    \/ ClientStop

ClientSpec == ClientInit /\ [][ClientNext]_vars

(***************************************************************************)
(* telemetry_client.py: the critical conditions of run().  The loop of     *)
(* the client with the alerts of each record, over records whose           *)
(* Temperature and FanSpeed lie on and about the thresholds or are absent  *)
(* from the row; the client is followed from its connection on.            *)
(***************************************************************************)
TEMP_THRESHOLD == 70
FAN_SPEED_MIN == 1000

\* the smallest step of a value rounded to 3 decimals
Milli == Unit \div 1000

\* values of row['Temperature'] and row['FanSpeed']
AlertTemperatures == {TEMP_THRESHOLD * Unit, TEMP_THRESHOLD * Unit + Milli}
AlertFanSpeeds == {FAN_SPEED_MIN * Unit - Milli, FAN_SPEED_MIN * Unit}

\* the k-th record of a stream, as the servicer builds it from a row
AlertRecords(k) ==
    { TelemetryData([ThermalRow(timestamps[k], link_state, target_temp, InitErrors(5))
                        EXCEPT !.Temperature = temperature, !.FanSpeed = fan_speed]) :
        link_state \in {"up", "down"},
        temperature \in {None} \cup {Exact(v) : v \in AlertTemperatures},
        fan_speed \in {None} \cup {Exact(v) : v \in AlertFanSpeeds} }

AlertsWithoutFanGuard(telemetry) ==
    (IF telemetry.Temperature.v > TEMP_THRESHOLD * Unit
     THEN <<"HIGH TEMPERATURE ALERT">> ELSE <<>>)
    \o (IF telemetry.FanSpeed.v < FAN_SPEED_MIN * Unit
        THEN <<"LOW FAN SPEED ALERT">> ELSE <<>>)
    \o (IF telemetry.linkState = "down" THEN <<"LINK DOWN ALERT">> ELSE <<>>)

\* alerts = [] and the three tests that append to it
Alerts(telemetry) ==
    (IF telemetry.Temperature.v > TEMP_THRESHOLD * Unit
     THEN <<"HIGH TEMPERATURE ALERT">> ELSE <<>>)
    \o (IF telemetry.FanSpeed.v < FAN_SPEED_MIN * Unit /\ telemetry.FanSpeed.v > 0
        THEN <<"LOW FAN SPEED ALERT">> ELSE <<>>)
    \o (IF telemetry.linkState = "down" THEN <<"LINK DOWN ALERT">> ELSE <<>>)

AlertInit ==
    /\ scenario = "Thermal"
    /\ interval_seconds = 1
    /\ duration = ClientRecords * interval_seconds
    /\ port_count = 1
    /\ end_time = MaxNow
    /\ total_points = TruncDiv(duration, interval_seconds)
    /\ start_time = end_time - duration
    /\ timestamps = Timestamps(start_time, interval_seconds, total_points)
    /\ Unbound
    /\ port = 0
    /\ data = <<>>
    /\ pc = "idle"
    /\ exc = "none"
    /\ NoTickLocals
    /\ NoServer
    /\ client = [at |-> "loop", conn |-> "ready", drop |-> "ok", create |-> "ok",
                 received |-> 0, telemetry |-> NoEntry, insert |-> "none",
                 rollback |-> "none", alerts |-> <<>>]
    /\ questdb = [table |-> TRUE, rows |-> <<>>]

\* for telemetry in stub.SubscribeTelemetry(request): the next record, its
\* alerts collected and printed
AlertReceive ==
    /\ client.at = "loop"
    /\ client.received < ClientRecords
    /\ \E telemetry \in AlertRecords(client.received + 1) :
         client' = [client EXCEPT !.at = "insert", !.telemetry = telemetry,
                                  !.alerts = Alerts(telemetry),
                                  !.received = @ + 1]
    /\ UNCHANGED <<generator_side, questdb>>

AlertNext ==
    \/ AlertReceive
    \/ ClientInsert
    \/ ClientStop

AlertSpec == AlertInit /\ [][AlertNext]_vars


(***************************************************************************)
(* The numbers a cell of a row can hold.                                   *)
(***************************************************************************)
\* outcomes of np.random.normal(0, sd) for a metric: none but 0 when sd is
\* 0, and otherwise 0, three standard deviations and a little, and three
\* and a half, either way
MetricDraws(sd) ==
    IF sd = 0 THEN {0}
    ELSE NormalDraws(sd) \cup {-((7 * sd) \div 2), 0, (7 * sd) \div 2}

\* daily_factor = np.sin(hour_of_day / 24 * 2 * np.pi), at its extremes
DailyFactors == {-1, 0, 1}

\* min(max(x, clamp[1]), clamp[2]) when there is a clamp
Clamped(x, clamp) ==
    IF clamp = <<>> THEN x
    ELSE IF x < clamp[1] THEN clamp[1]
    ELSE IF x > clamp[2] THEN clamp[2]
    ELSE x

\* the values of a cell of a floating-point metric, in units of 1/Unit
CellValues(cell) ==
    CASE cell.kind = "none" -> {}
      [] cell.kind = "exact" -> {cell.v}
      [] cell.kind = "drawn" ->
            { Round3(Clamped(cell.mean + f * cell.daily + n, cell.clamp)) :
                f \in DailyFactors, n \in MetricDraws(cell.sd) }
      [] cell.kind = "drawn2" ->
            { Round3(cell.mean + n + n2) :
                n \in MetricDraws(cell.sd), n2 \in MetricDraws(cell.sd2) }
      [] cell.kind = "jittered" ->
            { Round3(cell.mean + n) + (IF cell.magnitude THEN Abs(p) ELSE p) :
                n \in MetricDraws(cell.sd), p \in MetricDraws(cell.post) }

(***************************************************************************)
(* Properties of the generators.                                           *)
(***************************************************************************)
Rows == 1 .. Len(data)

\* The record appended by the latest tick.  data grows by Append alone, so
\* every record of a series is LastRow in the state its tick leads to, and a
\* state predicate on LastRow is a statement about every record.
LastRow == data[Len(data)]

HasRow == Len(data) > 0

\* the rows of data that belong to the port being generated
RowsOfPort(p) == { k \in Rows : data[k].port = PortName(p) }

Present(row, m) == ~IsNone(row[m])

\* C1: in every scenario and for every port, each running total
\* (FEC_Correctable, FEC_Uncorrectable, CRCErrorCount,
\* ConnectorInsertionCount) is a non-negative integer, and no step within
\* one port's series decreases it.
C1_CountersNeverDecrease ==
    [][ \A c \in Counters :
          /\ cumulative_errors[c] \in Nat
          /\ cumulative_errors'[c] \in Nat
          /\ port' = port => cumulative_errors'[c] >= cumulative_errors[c] ]_vars

\* C1 witness: a finished mechanical series in which an error was accumulated
\* and the reseat has incremented ConnectorInsertionCount.
C1_Witness ==
    /\ pc = "done" /\ scenario = "Mechanical"
    /\ cumulative_errors.FEC_Correctable + cumulative_errors.CRCErrorCount > 0
    /\ cumulative_errors.ConnectorInsertionCount = 6

\* C2 (as stated): on every record, up or down, each counter field carries
\* the counter's current cumulative total.
C2_EveryRecordCarriesTotals ==
    \A k \in Rows : \A c \in Counters :
        /\ data[k][c].kind = "exact"
        /\ (k = Len(data) /\ (scenario = "Healthy" => data[k].port = PortName(port)))
              => data[k][c].v = cumulative_errors[c]

\* C2 (amended): on every up record each counter field carries the counter's
\* current cumulative total, and so does ConnectorInsertionCount on every
\* thermal or mechanical record; on a down record FEC_Correctable,
\* FEC_Uncorrectable and CRCErrorCount (and, in the healthy scenario,
\* ConnectorInsertionCount) are absent; the counter values present on the
\* records of one port are non-decreasing in series order.
C2_PresentCountersCarryTotals ==
    HasRow => \A c \in Counters :
        LET carried == LastRow.linkState = "up"
                         \/ (c = "ConnectorInsertionCount" /\ scenario # "Healthy")
        IN  /\ carried => LastRow[c].kind = "exact"
            /\ ~carried => IsNone(LastRow[c])
            /\ (carried /\ (scenario = "Healthy" => LastRow.port = PortName(port)))
                  => LastRow[c].v = cumulative_errors[c]
            /\ carried =>
                  \A j \in 1 .. (Len(data) - 1) :
                      (data[j].port = LastRow.port /\ Present(data[j], c))
                         => data[j][c].v <= LastRow[c].v

\* C2 witness: a down record between two up records, the later up record
\* carrying a larger FEC_Correctable total than the earlier one.
C2_Witness ==
    \E j, k, l \in Rows :
        /\ j < k /\ k < l
        /\ data[j].linkState = "up" /\ data[k].linkState = "down"
        /\ data[l].linkState = "up"
        /\ data[j].FEC_Correctable.v < data[l].FEC_Correctable.v

\* a thermal or mechanical tick is being taken
CooldownTick == scenario \in {"Thermal", "Mechanical"} /\ i' = i + 1

\* C3: in the thermal and mechanical generators, a tick entered with
\* cooldown > 0 keeps the link state of the previous record and decrements
\* the cooldown by exactly 1; the link state of a record differs from that of
\* the previous record only at a tick entered with cooldown = 0.
C3_CooldownHoldsState ==
    [][ CooldownTick =>
          /\ link_flap_cooldown > 0 =>
                /\ link_flap_cooldown' = link_flap_cooldown - 1
                /\ last_link_state' = last_link_state
                /\ data'[i + 1].linkState = last_link_state
                /\ i > 0 => data'[i + 1].linkState = data[i].linkState
          /\ (i > 0 /\ data'[i + 1].linkState # data[i].linkState)
                => link_flap_cooldown = 0 ]_vars

\* C3 witness: two consecutive down records with a cooldown still pending,
\* so the tick of the second one was entered with cooldown > 0.
C3_Witness ==
    /\ scenario \in {"Thermal", "Mechanical"}
    /\ Len(data) >= 3
    /\ data[Len(data) - 2].linkState = "up"
    /\ data[Len(data) - 1].linkState = "down"
    /\ LastRow.linkState = "down"
    /\ link_flap_cooldown >= 2

\* C4 (as stated): in the healthy scenario a change of link state between
\* records i-1 and i of a port is followed by no further change among the
\* records i .. i+3 of that port.
C4_HealthyFlapThenCooldown ==
    scenario = "Healthy" =>
        \A k \in Rows : \A j \in Rows :
            (/\ k >= 2 /\ data[k].port = data[k - 1].port
             /\ data[k].linkState # data[k - 1].linkState
             /\ j > k /\ j <= k + 3 /\ data[j].port = data[k].port)
                => data[j].linkState = data[j - 1].linkState

\* C4 (amended): the healthy generator keeps no link state machine: no
\* cooldown and no last state are carried from one record to the next, and at
\* every tick, whatever the previous records were, the record can be drawn up
\* and can be drawn down.
C4_HealthyLinkIndependent ==
    scenario = "Healthy" =>
        /\ link_flap_cooldown = 0
        /\ last_link_state = "up"
        /\ (pc = "running" /\ port >= 1 /\ i < Len(timestamps)) =>
              /\ ENABLED (HealthyTick /\ data'[Len(data) + 1].linkState = "up")
              /\ ENABLED (HealthyTick /\ data'[Len(data) + 1].linkState = "down")

\* C4 witness: three consecutive healthy records of one port that read
\* up, down, up: a flap directly followed by another flap.
C4_Witness ==
    /\ scenario = "Healthy"
    /\ \E k \in Rows :
          /\ k >= 3
          /\ data[k].port = data[k - 2].port
          /\ data[k - 2].linkState = "up"
          /\ data[k - 1].linkState = "down"
          /\ data[k].linkState = "up"

\* C5 (as stated): for every total tick count N > 0 the thermal and
\* mechanical builders complete: the call never ends in an error.
C5_PositiveTicksNeverFail ==
    (scenario \in {"Thermal", "Mechanical"} /\ total_points > 0) => pc # "error"

\* C6: for every N >= 0 the phase lengths are non-negative and sum to N, and
\* a severity curve whose construction has run to its end has exactly N
\* entries, one per tick.
C6_PhaseLengthsSumToN ==
    /\ total_points >= 0 =>
          /\ ThermalNormalPeriod >= 0 /\ ThermalRisingPeriod >= 0
          /\ ThermalHighPeriod >= 0
          /\ ThermalNormalPeriod + ThermalRisingPeriod + ThermalHighPeriod = total_points
          /\ MechNormalPeriod >= 0 /\ MechEarlyPeriod >= 0
          /\ MechModeratePeriod >= 0 /\ MechSeverePeriod >= 0
          /\ MechNormalPeriod + MechEarlyPeriod + MechModeratePeriod
                + MechSeverePeriod = total_points
    /\ (scenario = "Thermal" /\ ThermalCurveDone) => Len(curve) = total_points
    /\ (scenario = "Mechanical" /\ MechCurveDone) => Len(curve) = total_points
    /\ pc = "error" => exc # "IndexError" \/ data = <<>>

\* C6 witness: a mechanical curve of five ticks built to its end, one tick
\* in each of the first three phases and two in the last.
C6_Witness ==
    /\ scenario = "Mechanical" /\ MechCurveDone
    /\ total_points = 5 /\ Len(curve) = 5
    /\ MechSeverePeriod = 2

\* C7: a call whose total tick count is not positive never returns a series;
\* when it has stopped, it has stopped with an error, in each generator.
C7_NonPositiveTicksFail ==
    total_points <= 0 =>
        /\ pc # "done"
        /\ pc = "error" \/ ENABLED Next

\* C7 witness: the healthy generator stopped with an error on a call of zero
\* ticks.
C7_Witness ==
    /\ scenario = "Healthy" /\ total_points = 0
    /\ pc = "error" /\ exc = "KeyError"

\* C8: a returned series holds exactly N records per port, in port order and
\* tick order, and the record of tick i carries start_time + i * interval, so
\* the timestamps of one port increase by the interval from record to record.
C8_TimestampsAtFixedInterval ==
    /\ HasRow =>
          LET k == Len(data)
              tick == (k - 1) % total_points
          IN  /\ LastRow.timestamp = start_time + tick * interval_seconds
              /\ LastRow.port = PortName(((k - 1) \div total_points) + 1)
              /\ (k >= 2 /\ LastRow.port = data[k - 1].port)
                    => LastRow.timestamp = data[k - 1].timestamp + interval_seconds
    /\ pc = "done" =>
          \A p \in 1 .. port_count : Cardinality(RowsOfPort(p)) = total_points

\* C8 witness: a returned healthy series of two ports and two ticks at an
\* interval of two seconds.
C8_Witness ==
    /\ pc = "done" /\ scenario = "Healthy"
    /\ port_count = 2 /\ total_points = 2 /\ interval_seconds = 2
    /\ Len(data) = 4

ThermalAlwaysPresent ==
    {"Temperature", "FanSpeed", "Humidity", "Airflow", "AmbientTemperature",
     "ConnectorInsertionCount"}

\* C9 (as stated): in the thermal scenario Temperature, FanSpeed, Humidity,
\* Airflow, AmbientTemperature and ConnectorInsertionCount are present on
\* every record and every other metric is absent exactly when the record is
\* down.
C9_ThermalVolatileAbsentWhenDown ==
    scenario = "Thermal" =>
        \A k \in Rows : \A m \in MetricSet :
            IF m \in ThermalAlwaysPresent
            THEN Present(data[k], m)
            ELSE IsNone(data[k][m]) <=> data[k].linkState = "down"

\* C9 (amended): in the thermal scenario Temperature, FanSpeed, Humidity,
\* Airflow, AmbientTemperature, ConnectorInsertionCount and
\* CableLengthEstimate are present on every record, and every other metric
\* is absent exactly when the record is down.
C9_ThermalStaticAlwaysPresent ==
    (scenario = "Thermal" /\ HasRow) =>
        \A m \in MetricSet :
            IF m \in ThermalAlwaysPresent \cup {"CableLengthEstimate"}
            THEN Present(LastRow, m)
            ELSE IsNone(LastRow[m]) <=> LastRow.linkState = "down"

\* C9 witness: a thermal series holding a down record and an up record.
C9_Witness ==
    /\ scenario = "Thermal"
    /\ \E j, k \in Rows : data[j].linkState = "down" /\ data[k].linkState = "up"

\* C10: in every scenario an up record carries all 15 metrics, and in the
\* healthy scenario a down record carries none of them.
C10_UpRecordsComplete ==
    HasRow =>
        /\ LastRow.linkState = "up" => \A m \in MetricSet : Present(LastRow, m)
        /\ (scenario = "Healthy" /\ LastRow.linkState = "down")
              => \A m \in MetricSet : IsNone(LastRow[m])

\* C10 witness: a healthy series holding a down record and an up record.
C10_Witness ==
    /\ scenario = "Healthy"
    /\ \E j, k \in Rows : data[j].linkState = "down" /\ data[k].linkState = "up"

(***************************************************************************)
(* Properties of the tick loop on a built curve (LinkSpec).                *)
(***************************************************************************)
\* the checkpoint tick int(total_points * 0.8)
Checkpoint == IntFrac(total_points, 8)

\* the tick whose row is the latest one
LastTick == i - 1

\* the reseat has fired in this series
ReseatFired ==
    cumulative_errors.ConnectorInsertionCount > Base("ConnectorInsertionCount")

\* C18: in the mechanical scenario ConnectorInsertionCount is incremented at
\* most once per series, only at the checkpoint tick c = int(0.8 * N) and
\* only if the record of tick c is down: every record before tick c carries
\* 5, record c carries 6 if it is down and 5 otherwise, and every later
\* record carries what record c carries.
C18_ReseatCountsOnce ==
    [][ (scenario = "Mechanical" /\ i' = i + 1) =>
          LET count == data'[1].ConnectorInsertionCount
          IN  /\ count.kind = "exact"
              /\ count.v = cumulative_errors'.ConnectorInsertionCount
              /\ i < Checkpoint => count.v = 5
              /\ i = Checkpoint =>
                    count.v = IF data'[1].linkState = "down" THEN 6 ELSE 5
              /\ i > Checkpoint => count.v = data[1].ConnectorInsertionCount.v ]_vars

\* C18 witness: an up record, two or more ticks after a checkpoint whose
\* record was down, still carrying 6.
C18_Witness ==
    /\ scenario = "Mechanical" /\ HasRow
    /\ LastTick >= Checkpoint + 2
    /\ LastRow.linkState = "up"
    /\ LastRow.ConnectorInsertionCount = Exact(6)

\* the severity the claim expects tick t to use when the reduced ticks are
\* first .. last
SeverityExpected(t, first, last) ==
    IF ReseatFired /\ t >= first /\ t <= last
    THEN Max0(built_curve[t + 1] - 2 * Unit)
    ELSE built_curve[t + 1]

\* the latest mechanical tick used severity s for its link decision and its
\* metrics
MechTickUsed(s) ==
    /\ current_severity = s
    /\ flap_probability = MechFlapProbability(s)
    /\ LastRow = MechRow(timestamps[i], LastRow.linkState, s, cumulative_errors)

\* C19 (as stated): when the reseat fires at checkpoint tick c, the severity
\* used at each of the next 30 ticks c+1 .. min(c+30, N-1) is
\* max(0, built severity - 2.0), and the severity used at every other tick
\* is the built one.
C19_Next30TicksReduced ==
    (scenario = "Mechanical" /\ HasRow) =>
        MechTickUsed(SeverityExpected(LastTick, Checkpoint + 1,
                                      Min(Checkpoint + 30, total_points - 1)))

\* C19 (amended): when the reseat fires at checkpoint tick c, the severity
\* used for the link decision and the metrics at each of the next 29 ticks
\* c+1 .. min(c+29, N-1) is max(0, built severity - 2.0), and the severity
\* used at every other tick, tick c and tick c+30 included, is the built one.
C19_Next29TicksReduced ==
    (scenario = "Mechanical" /\ HasRow) =>
        MechTickUsed(SeverityExpected(LastTick, Checkpoint + 1,
                                      Min(Checkpoint + 29, total_points - 1)))

\* C19 witness: after a reseat, the entry of tick c+29 of a long series is a
\* reduced one, and tick c+30 has used a positive built severity, unreduced.
C19_Witness ==
    /\ scenario = "Mechanical" /\ HasRow /\ ReseatFired
    /\ LastTick = Checkpoint + 30
    /\ built_curve[LastTick + 1] > 0
    /\ current_severity = built_curve[LastTick + 1]
    /\ curve[LastTick] # built_curve[LastTick]
    /\ curve[LastTick] = Max0(built_curve[LastTick] - 2 * Unit)

\* the tiers as the specification states them, in units of 1/Unit
MechTier(severity) ==
    CASE severity < Unit -> 10
      [] severity >= Unit /\ severity < 2 * Unit -> 200
      [] severity >= 2 * Unit /\ severity < 3 * Unit -> 800
      [] severity >= 3 * Unit -> 2500

ThermalTier(temp) ==
    CASE temp < 45 * Unit -> 10
      [] temp >= 45 * Unit /\ temp < 50 * Unit -> 500
      [] temp >= 50 * Unit -> 2000

\* the severities compared for monotonicity
ProbedSeverities ==
    { ThermalProbes[k] : k \in 1 .. Len(ThermalProbes) }
        \cup { MechProbes[k] : k \in 1 .. Len(MechProbes) }
        \cup { current_severity }

\* C20: the flap probability of a tick is a non-decreasing step function of
\* the severity the tick reads from the curve: mechanical < 1.0 gives 0.1%,
\* < 2.0 gives 2%, < 3.0 gives 8%, otherwise 25%; thermal < 45 gives 0.1%,
\* < 50 gives 5%, otherwise 20%; a boundary value belongs to the higher tier.
C20_FlapProbabilityTiers ==
    HasRow =>
        /\ LastTick # Checkpoint => current_severity = curve[i]
        /\ flap_probability =
              IF scenario = "Thermal" THEN ThermalTier(current_severity)
              ELSE MechTier(current_severity)
        /\ \A a \in ProbedSeverities :
              /\ a <= current_severity =>
                    IF scenario = "Thermal"
                    THEN ThermalFlapProbability(a) <= flap_probability
                    ELSE MechFlapProbability(a) <= flap_probability
              /\ a >= current_severity =>
                    IF scenario = "Thermal"
                    THEN ThermalFlapProbability(a) >= flap_probability
                    ELSE MechFlapProbability(a) >= flap_probability

\* C20 witness: a mechanical tick entered with cooldown 0 at a severity of
\* exactly 3.0 has flipped the link down with the 25% tier.
C20_Witness ==
    /\ scenario = "Mechanical" /\ HasRow
    /\ current_severity = 3 * Unit /\ flap_probability = 2500
    /\ LastRow.linkState = "down" /\ link_flap_cooldown = 8

(***************************************************************************)
(* Properties of SubscribeTelemetry (ServerSpec).                          *)
(***************************************************************************)
\* the method hands a message to the transport in this step
Yields == servicer.at # "yielded" /\ servicer'.at = "yielded"

\* the row the message at the transport was made from
YieldedRow == servicer.filtered_data[servicer.index]

\* the request's filter lets the rows of the thermal series through
FilterMatches == servicer.request_port \in {NoPort, PortName(1)}

\* C13: when the delivery loop has replayed the last record of a series it
\* calls the generator again, and the call starts a series from tick 0 with
\* link state up, cooldown 0, FEC_Correctable, FEC_Uncorrectable and
\* CRCErrorCount 0 and ConnectorInsertionCount 5, whatever the link state,
\* the cooldown and the counters were at the end of the previous series.
C13_RebuildStartsFresh ==
    [][ /\ (servicer.at = "iterating" /\ servicer'.at # "iterating"
              /\ servicer.index = Len(servicer.filtered_data))
           => servicer'.at = "call"
        /\ (servicer.at = "call" /\ servicer'.at # "call") =>
              /\ servicer'.at = "building" /\ pc' = "running"
              /\ i' = 0 /\ curve' = <<>> /\ data' = <<>>
              /\ last_link_state' = "up"
              /\ link_flap_cooldown' = 0
              /\ cumulative_errors' =
                    [FEC_Correctable |-> 0, FEC_Uncorrectable |-> 0,
                     CRCErrorCount |-> 0, ConnectorInsertionCount |-> 5] ]_vars

\* C13 witness: a subscription that has replayed a series is at tick 0 of a
\* new one, with the link up, no cooldown and the counters at their start.
C13_Witness ==
    /\ servicer.at = "building" /\ servicer.delivered
    /\ pc = "running" /\ i = 0 /\ data = <<>> /\ curve = <<>>
    /\ last_link_state = "up" /\ link_flap_cooldown = 0
    /\ cumulative_errors.FEC_Correctable = 0

C15_OneSleepBetweenRecords ==
    [][ Yields =>
          servicer.slept = IF servicer.delivered THEN interval_seconds ELSE 0 ]_vars

\* C15 witness: the first record of a rebuilt series is about to be yielded,
\* one sleep after the last record of the previous series.
C15_Witness ==
    /\ servicer.at = "iterating" /\ servicer.index = 0
    /\ servicer.delivered /\ servicer.slept = interval_seconds
    /\ Len(servicer.filtered_data) > 0

\* C16: with a non-empty port filter every delivered record has the port of
\* the filter; with an empty filter every record of each built series is
\* delivered, in series order.
C16_FilterByPort ==
    [][ /\ Yields =>
              LET entry == servicer'.yielded
                  k == servicer'.index
              IN  /\ k = servicer.index + 1
                  /\ servicer.request_port # NoPort =>
                        entry.port = servicer.request_port
                  /\ servicer.request_port = NoPort =>
                        /\ entry.port = data[k].port
                        /\ entry.timestamp = Str(data[k].timestamp)
                        /\ entry.linkState = data[k].linkState
        /\ (servicer.at = "iterating" /\ servicer'.at = "call"
              /\ servicer.request_port = NoPort)
              => servicer.index = Len(data) ]_vars

\* C16 witness: the last record of a series is delivered to a subscriber
\* that filters on the port of the series.
C16_Witness ==
    /\ servicer.at = "yielded" /\ servicer.request_port = PortName(1)
    /\ servicer.index = Len(data)
    /\ servicer.yielded.port = PortName(1)

\* C17: every delivered record has a value for each of its 15 numeric
\* fields: 0.0 (0 for ConnectorInsertionCount) where the generated record
\* has none, and the generated value where it has one.
C17_AbsentDeliveredAsZero ==
    servicer.at = "yielded" =>
        \A m \in MetricSet :
            LET sent == servicer.yielded[m]
                made == YieldedRow[m]
            IN  /\ ~IsNone(sent)
                /\ IsNone(made) => sent = Exact(0)
                /\ ~IsNone(made) =>
                      IF m \in {"FEC_Correctable", "FEC_Uncorrectable", "CRCErrorCount"}
                      THEN sent.kind = "exact" /\ sent.v = made.v * Unit
                      ELSE sent = made

\* C17 witness: a down record is delivered with SNR 0.0 and its temperature.
C17_Witness ==
    /\ servicer.at = "yielded"
    /\ YieldedRow.linkState = "down"
    /\ IsNone(YieldedRow.SNR) /\ servicer.yielded.SNR = Exact(0)
    /\ servicer.yielded.Temperature = YieldedRow.Temperature
    /\ servicer.yielded.Temperature # Exact(0)

(***************************************************************************)
(* Properties of the worker threads (PoolSpec).                            *)
(***************************************************************************)
\* the thread is inside the tick loop of its call
Building(t) == workers[t].at \in {"link", "cooldown", "errors"}

\* C11 (as stated): two concurrently served subscriptions do not share a
\* random-number stream: the draws a subscription consumes are the ones it
\* would consume with no other subscription active, that is consecutive
\* draws of the generator from its first one on, and so the link states of
\* its records are those of the call running alone.
C11_OwnRandomStream ==
    \A t \in Threads :
        LET d == workers[t].draws
            made == workers[t].link_states
        IN  /\ \A k \in 1 .. Len(d) : d[k] = d[1] + (k - 1)
            /\ d # <<>> =>
                  made = SubSeq(AloneLinkStates("up", 0, d[1], total_points),
                                1, Len(made))

\* C12: two concurrently served subscriptions never share link state,
\* cooldown or cumulative counters: a step of one thread's tick loop leaves
\* the locals of every other thread as they are, and the link state,
\* cooldown and counter it writes follow from the thread's own locals.
C12_PrivateLinkState ==
    [][ \A t \in Threads :
          workers'[t] # workers[t] =>
            LET w == workers[t]
                n == workers'[t]
            IN  /\ \A u \in Threads \ {t} : workers'[u] = workers[u]
                /\ w.at = "link" =>
                      /\ n.last_link_state = w.last_link_state
                      /\ n.FEC_Correctable = w.FEC_Correctable
                      /\ IF w.link_flap_cooldown > 0
                         THEN /\ n.link_flap_cooldown = w.link_flap_cooldown - 1
                              /\ n.link_state = w.last_link_state
                         ELSE /\ n.link_flap_cooldown = 0
                              /\ n.link_state \in {w.last_link_state,
                                                   Flip(w.last_link_state)}
                /\ w.at = "cooldown" =>
                      /\ n.last_link_state = w.link_state
                      /\ n.link_state = w.link_state
                      /\ n.link_flap_cooldown \in ThermalCooldownMin .. ThermalCooldownMax
                      /\ n.FEC_Correctable = w.FEC_Correctable
                /\ w.at = "errors" =>
                      /\ n.last_link_state = w.last_link_state
                      /\ n.link_flap_cooldown = w.link_flap_cooldown
                      /\ n.link_states = Append(w.link_states, w.link_state)
                      /\ n.FEC_Correctable >= w.FEC_Correctable
                      /\ w.link_state = "down" => n.FEC_Correctable = w.FEC_Correctable
      ]_vars

\* C12 witness: two subscriptions are being built at the same time, one with
\* its link down and in cooldown, the other with its link up, no cooldown
\* and a different counter.
C12_Witness ==
    \E t, u \in Threads :
        /\ Building(t) /\ Building(u)
        /\ workers[t].i >= 1 /\ workers[u].i >= 1
        /\ workers[t].last_link_state = "down" /\ workers[t].link_flap_cooldown > 0
        /\ workers[u].last_link_state = "up" /\ workers[u].link_flap_cooldown = 0
        /\ workers[t].FEC_Correctable # workers[u].FEC_Correctable

(***************************************************************************)
(* Properties of the mechanical link decision and curve.                   *)
(***************************************************************************)
\* the latest mechanical tick flipped the link
MechFlapped ==
    /\ scenario = "Mechanical" /\ i' = i + 1
    /\ last_link_state' # last_link_state

\* C21 (as stated): in the Mechanical scenario a flap sets the cooldown to a
\* value in 5..15 exactly when the flip is to up and the severity of the
\* tick is in the severe tier (>= 3.0, flap probability 25%); every other
\* flap sets the cooldown to a value in 3..8.
C21_LongCooldownOnlySevereToUp ==
    [][ MechFlapped =>
          IF last_link_state' = "up" /\ current_severity' >= 3 * Unit
          THEN link_flap_cooldown' \in 5 .. 15
          ELSE link_flap_cooldown' \in 3 .. 8 ]_vars

\* C22: in a Mechanical series of N ticks every tick of the normal phase
\* has severity exactly 0 and every tick of the early phase has severity in
\* [0, 1.0), so every tick of the first int(0.2N) + int(0.2N) ticks is
\* evaluated with flap probability 0.1%.
C22_FirstPhasesStable ==
    [][ (scenario = "Mechanical" /\ i' = i + 1
            /\ i < IntFrac(total_points, 2) + IntFrac(total_points, 2)) =>
          /\ current_severity' = curve[i + 1]
          /\ i < IntFrac(total_points, 2) => current_severity' = 0
          /\ i >= IntFrac(total_points, 2) =>
                current_severity' >= 0 /\ current_severity' < Unit
          /\ flap_probability' = Unit \div 1000 ]_vars

\* C22 witness: the last tick of a long early phase, entered with cooldown
\* 0, has flapped at a severity above 0.9 with flap probability 0.1%.
C22_Witness ==
    /\ scenario = "Mechanical" /\ HasRow
    /\ IntFrac(total_points, 2) > 10
    /\ LastTick = 2 * IntFrac(total_points, 2) - 1
    /\ current_severity > (9 * Unit) \div 10 /\ current_severity < Unit
    /\ flap_probability = Unit \div 1000
    /\ LastRow.linkState = "down" /\ link_flap_cooldown = 8

\* C23 (as stated): in a Mechanical series of 600 ticks every tick from 480
\* through 599 is evaluated with flap probability 25%, the severity it uses
\* being at least 3.0, whether or not the reseat fired at tick 480 and
\* whatever jitter the severe phase drew.
C23_SevereTicksAt25Percent ==
    [][ (scenario = "Mechanical" /\ total_points = 600 /\ i' = i + 1 /\ i >= 480) =>
          /\ current_severity' >= 3 * Unit
          /\ flap_probability' = (25 * Unit) \div 100 ]_vars

\* C23 (amended): in a Mechanical series of 600 ticks every tick from 480
\* through 599 uses the severity the severe phase built for it (the last
\* moderate value + 2.0 + the jitter drawn), lowered by 2.0 and not below 0
\* at ticks 481 .. 509 when the reseat fired at tick 480, and it is
\* evaluated with flap probability 25% exactly when that severity is at
\* least 3.0.
C23_SevereTicksFollowCurve ==
    [][ (scenario = "Mechanical" /\ total_points = 600 /\ i' = i + 1 /\ i >= 480) =>
          LET used == IF ReseatFired /\ i >= 481 /\ i <= 509
                      THEN Max0(built_curve[i + 1] - 2 * Unit)
                      ELSE built_curve[i + 1]
          IN  /\ current_severity' = used
              /\ flap_probability' = (25 * Unit) \div 100 <=> used >= 3 * Unit
              /\ flap_probability' \in {Unit \div 1000, (2 * Unit) \div 100,
                                        (8 * Unit) \div 100, (25 * Unit) \div 100} ]_vars

\* C23 witness: after a reseat at tick 480 a tick in 481 .. 509 whose built
\* severity is above 3.0 has been evaluated below 3.0, with flap
\* probability 2%.
C23_Witness ==
    /\ scenario = "Mechanical" /\ total_points = 600 /\ HasRow
    /\ ReseatFired
    /\ LastTick >= 481 /\ LastTick <= 509
    /\ built_curve[i] >= 3 * Unit
    /\ current_severity = built_curve[i] - 2 * Unit
    /\ current_severity < 3 * Unit
    /\ flap_probability = (2 * Unit) \div 100

\* the ramp of tick t (from 0) as the claim states it: i / early_len in the
\* early phase, the last early value + 2.0 * i / moderate_len in the
\* moderate phase
ClaimedRamp(t) ==
    LET early_last == TruncDiv((MechEarlyPeriod - 1) * Unit, MechEarlyPeriod)
    IN  IF t < MechNormalPeriod + MechEarlyPeriod
        THEN TruncDiv((t - MechNormalPeriod) * Unit, MechEarlyPeriod)
        ELSE early_last
               + TruncDiv((t - MechNormalPeriod - MechEarlyPeriod) * 2 * Unit,
                          MechModeratePeriod)

\* the ticks of the early and moderate phases that have been built
RampTicksBuilt ==
    { t \in MechNormalPeriod .. (Len(curve) - 1) :
        t < MechNormalPeriod + MechEarlyPeriod + MechModeratePeriod }

\* C24: in the Mechanical curve the deterministic ramp is non-decreasing
\* across the early and moderate phases: an early entry is i / early_len
\* (from 0, below 1.0), a moderate entry is the last early value plus
\* 2.0 * i / moderate_len plus the noise drawn, and the first moderate ramp
\* value equals the last early value.
C24_RampNonDecreasing ==
    \A t \in RampTicksBuilt :
        /\ IF t < MechNormalPeriod + MechEarlyPeriod
           THEN /\ curve[t + 1] = ClaimedRamp(t)
                /\ ClaimedRamp(t) >= 0 /\ ClaimedRamp(t) < Unit
           ELSE curve[t + 1] - ClaimedRamp(t) \in NormalDraws((3 * Unit) \div 10)
        /\ t = MechNormalPeriod => ClaimedRamp(t) = 0
        /\ t = MechNormalPeriod + MechEarlyPeriod =>
              ClaimedRamp(t) = curve[MechNormalPeriod + MechEarlyPeriod]
        /\ t > MechNormalPeriod => ClaimedRamp(t - 1) <= ClaimedRamp(t)

\* C24 witness: the moderate loop of a 20-tick series has run to its end;
\* the early ramp has risen to 0.75 and the moderate ramp from there by more
\* than 1.5.
C24_Witness ==
    /\ total_points >= 20
    /\ Len(curve) = MechNormalPeriod + MechEarlyPeriod + MechModeratePeriod
    /\ curve[MechNormalPeriod + MechEarlyPeriod] > Unit \div 2
    /\ ClaimedRamp(Len(curve) - 1)
          > curve[MechNormalPeriod + MechEarlyPeriod] + (3 * Unit) \div 2

(***************************************************************************)
(* Properties of the metric values.                                        *)
(***************************************************************************)
\* C25 (as stated): in a Healthy series with one port the counter
\* ConnectorInsertionCount of port 1 is initialised to 5, so every up
\* record carries 5 as long as no insertion event has fired (and at least 5
\* afterwards).
C25_HealthyInsertionsStartAtFive ==
    (scenario = "Healthy" /\ port_count = 1 /\ port = 1 /\ pc = "running") =>
        /\ i = 0 => cumulative_errors.ConnectorInsertionCount = 5
        /\ (HasRow /\ LastRow.linkState = "up") =>
              /\ LastRow.ConnectorInsertionCount.kind = "exact"
              /\ LastRow.ConnectorInsertionCount.v >= 5

C27_FloatsRoundedTo3Decimals ==
    HasRow =>
        \A m \in MetricSet \ Counters :
            \A v \in CellValues(LastRow[m]) : v % (Unit \div 1000) = 0

(***************************************************************************)
(* Properties of the client.                                               *)
(***************************************************************************)
\* the last row committed to the table
LastStored == questdb.rows[Len(questdb.rows)]

\* rows is rows2 or a beginning of it
IsBeginning(rows, rows2) ==
    /\ Len(rows) <= Len(rows2)
    /\ \A k \in 1 .. Len(rows) : rows[k] = rows2[k]

\* C28: a failed insert is confined to its record: the step of the insert
\* always returns to the loop over the stream; when the insert failed the
\* table is as it was, conn.rollback() was called if the statement or its
\* commit raised, and once the rollback has returned the connection is ready
\* for the next record.
C28_FailedInsertConfined ==
    [][ client.at = "insert" =>
          /\ client'.at = "loop"
          /\ client'.received = client.received
          /\ client'.insert = "failed" =>
                /\ questdb' = questdb
                /\ client.conn # "closed" => client'.rollback # "not called"
                /\ client'.rollback = "returned" => client'.conn = "ready" ]_vars

\* the first record failed and was skipped, the second is in the table
C28_Witness ==
    /\ client.at = "loop"
    /\ client.create = "ok"
    /\ client.received = 2
    /\ client.insert = "ok"
    /\ Len(questdb.rows) = 1
    /\ LastStored = InsertedRow(client.telemetry, SwitchId)

\* the parts of C29 that do not depend on the fate of the DROP: no record is
\* received or inserted before DROP and CREATE have both been attempted, and
\* once run() has left create_questdb_table no step removes a row or the
\* table
InitialisationFirst ==
    /\ [](client.at \in {"loop", "insert", "ended"} =>
            client.drop # "not attempted" /\ client.create # "not attempted")
    /\ [](client.at \in {"start", "create", "crashed"} => client.received = 0)
    /\ [][ client.at \notin {"start", "create"} =>
             /\ questdb'.table = questdb.table
             /\ IsBeginning(questdb.rows, questdb'.rows) ]_vars

\* C29 (as stated): the initialisation runs before the first insert and
\* never again, and the CREATE is attempted whenever the DROP failed.
C29_CreateAttemptedWheneverDropFailed ==
    /\ InitialisationFirst
    /\ [](client.drop = "failed" /\ client.at # "create" =>
            client.create # "not attempted")

\* C29 (amended): the initialisation runs before the first insert and never
\* again; the CREATE is attempted when the DROP failed and the rollback
\* after it returned; when the connection is lost in the DROP run() ends
\* there, with no CREATE and no insert.
C29_CreateAttemptedAfterRollback ==
    /\ InitialisationFirst
    /\ [](client.drop = "failed" /\ client.at \notin {"create", "crashed"} =>
            client.create # "not attempted")
    /\ [](client.drop = "failed" /\ client.create = "not attempted"
            /\ client.at = "crashed" =>
            client.conn = "closed" /\ client.insert = "none")

\* the DROP failed, the table of the earlier run stayed, and a row of this
\* run was added to it
C29_Witness ==
    /\ client.drop = "failed"
    /\ client.create = "failed"
    /\ client.insert = "ok"
    /\ Len(questdb.rows) = 2
    /\ questdb.rows[1] = OldRow

\* C30: the row of a record that was inserted carries the record's port,
\* linkState and 15 metrics and the switch_id of the subscription, and its
\* timestamp is the ISO text of the time the record's timestamp names,
\* never the client's clock.
C30_RowCarriesRecord ==
    (client.at = "loop" /\ client.insert = "ok") =>
        /\ client.telemetry.timestamp = Str(timestamps[client.received])
        /\ LastStored.timestamp = Isoformat(timestamps[client.received])
        /\ LastStored.timestamp # Isoformat(ClientNow)
        /\ LastStored.switch_id = SwitchId
        /\ LastStored.port = client.telemetry.port
        /\ LastStored.linkState = client.telemetry.linkState
        /\ \A m \in MetricSet : LastStored[m] = client.telemetry[m]

\* the last record of the stream, of a link that is down, was inserted
C30_Witness ==
    /\ client.at = "loop"
    /\ client.insert = "ok"
    /\ client.received = ClientRecords
    /\ client.telemetry.linkState = "down"
    /\ LastStored.linkState = "down"

(***************************************************************************)
(* Properties of the cooldown.                                             *)
(***************************************************************************)
\* tick k (from 1) flipped the link: its record differs from the one before,
\* the first from the initial state up
FlapAt(k) ==
    data[k].linkState # (IF k = 1 THEN "up" ELSE data[k - 1].linkState)

\* the greatest cooldown a flap of the scenario draws
CooldownCeiling == IF scenario = "Thermal" THEN ThermalCooldownMax ELSE 15

\* C31: in the thermal and mechanical generators, after a flap at tick k
\* that draws cooldown c the records k .. k+c carry the same link state, so
\* the next flap is at tick k+c+1 at the earliest; the cooldown stays within
\* 0..10 (Thermal) and 0..15 (Mechanical).
C31_FlapHoldsForItsCooldown ==
    /\ link_flap_cooldown \in 0 .. CooldownCeiling
    /\ \A k \in 1 .. Len(data) :
         FlapAt(k) =>
            /\ data[k].link_flap_cooldown \in 1 .. CooldownCeiling
            /\ \A j \in k .. Min(k + data[k].link_flap_cooldown, Len(data)) :
                  /\ data[j].linkState = data[k].linkState
                  /\ j > k => ~FlapAt(j)

\* C31 witness: a flap at the first tick drew cooldown 3, the three ticks
\* after it were held, and the tick after those flapped again, to up with
\* the longest mechanical cooldown.
C31_Witness ==
    /\ scenario = "Mechanical"
    /\ Len(data) = 5
    /\ FlapAt(1) /\ data[1].link_flap_cooldown = 3
    /\ data[4].linkState = "down" /\ data[4].link_flap_cooldown = 0
    /\ FlapAt(5) /\ data[5].linkState = "up"

\* the latest thermal or mechanical tick flipped the link
LinkFlapped ==
    /\ scenario \in {"Thermal", "Mechanical"} /\ i' = i + 1
    /\ last_link_state' # last_link_state

\* the flip of the latest tick is the one the mechanical generator gives
\* the long cooldown: to up, at a degradation above 2.0
LongCooldownCase ==
    /\ scenario = "Mechanical"
    /\ last_link_state' = "up"
    /\ current_severity' > 2 * Unit

\* C32 (as stated): outside the mechanical long-cooldown case every flap of
\* the thermal and mechanical generators sets the cooldown to a value in
\* 3..8.
C32_OtherFlapsDraw3To8 ==
    [][ (LinkFlapped /\ ~LongCooldownCase) => link_flap_cooldown' \in 3 .. 8 ]_vars

\* C32 (amended): every thermal flap sets the cooldown to a value in 3..10;
\* outside the long-cooldown case every mechanical flap sets it to a value
\* in 3..8.
C32_FlapsDrawScenarioRange ==
    [][ (LinkFlapped /\ ~LongCooldownCase) =>
          IF scenario = "Thermal"
          THEN link_flap_cooldown' \in ThermalCooldownMin .. ThermalCooldownMax
          ELSE link_flap_cooldown' \in 3 .. 8 ]_vars

\* C32 witness: a thermal flap has just drawn the cooldown 10.
C32_Witness ==
    /\ scenario = "Thermal" /\ HasRow
    /\ LastRow.linkState = "down"
    /\ link_flap_cooldown = 10

(***************************************************************************)
(* Properties of the reseat and of the records.                            *)
(***************************************************************************)
\* C33: when the mechanical reseat fires at the checkpoint tick c, the link
\* decision and the record of tick c were computed from the severity of
\* tick c as built, the record already carries the incremented
\* ConnectorInsertionCount, and the reduced entry c of the curve is read by
\* no later tick.
C33_ReseatTickUsesBuiltSeverity ==
    [][ (scenario = "Mechanical" /\ i' = i + 1) =>
          /\ (i = Checkpoint /\ data'[1].linkState = "down") =>
                /\ current_severity' = built_curve[i + 1]
                /\ flap_probability' = MechFlapProbability(built_curve[i + 1])
                /\ data'[1] = MechRow(timestamps[i + 1], "down", built_curve[i + 1],
                                      cumulative_errors')
                /\ data'[1].ConnectorInsertionCount = Exact(6)
                /\ cumulative_errors'.ConnectorInsertionCount =
                       cumulative_errors.ConnectorInsertionCount + 1
                /\ curve'[i + 1] = Max0(built_curve[i + 1] - 2 * Unit)
          /\ i > Checkpoint =>
                /\ current_severity' = curve[i + 1]
                /\ curve' = curve ]_vars

\* C33 witness: the reseat has just fired at a checkpoint of severity 3.0,
\* which the tick used, while the curve now holds 1.0 there.
C33_Witness ==
    /\ scenario = "Mechanical" /\ HasRow
    /\ LastTick = Checkpoint
    /\ LastRow.linkState = "down"
    /\ LastRow.ConnectorInsertionCount = Exact(6)
    /\ current_severity = 3 * Unit
    /\ flap_probability = (25 * Unit) \div 100
    /\ curve[Checkpoint + 1] = Unit

\* C34: in the thermal scenario the Temperature of the record of tick i is
\* the curve value of tick i rounded to 3 decimals, for up and down records
\* alike, and every record carries ConnectorInsertionCount 5 and
\* CableLengthEstimate 10.0.
C34_ThermalTemperatureFollowsCurve ==
    [][ (scenario = "Thermal" /\ i' = i + 1) =>
          LET row == data'[1]
              temp == built_curve[i + 1]
          IN  /\ row.linkState \in {"up", "down"}
              /\ row.Temperature.kind = "exact"
              /\ row.Temperature.v % (Unit \div 1000) = 0
              /\ 2 * Abs(row.Temperature.v - temp) <= Unit \div 1000
              /\ current_severity' = temp
              /\ row.ConnectorInsertionCount = Exact(5)
              /\ row.CableLengthEstimate = Exact(10 * Unit) ]_vars

\* C34 witness: a down record at a tick whose curve value, 44.9999, is not
\* a multiple of 0.001 carries Temperature 45.0.
C34_Witness ==
    /\ scenario = "Thermal" /\ HasRow
    /\ LastRow.linkState = "down"
    /\ built_curve[LastTick + 1] = 45 * Unit - 1
    /\ LastRow.Temperature = Exact(45 * Unit)
    /\ LastRow.ConnectorInsertionCount = Exact(5)

\* a tick of one of the three generators has appended a down record
DownTick ==
    /\ i' = i + 1
    /\ Len(data') = Len(data) + 1
    /\ data'[Len(data')].linkState = "down"

\* C35: a tick whose record is down leaves the running totals of
\* FEC_Correctable, FEC_Uncorrectable and CRCErrorCount unchanged in every
\* scenario; ConnectorInsertionCount changes on a down tick only at the
\* mechanical checkpoint tick, by one.
C35_DownTickKeepsTotals ==
    [][ DownTick =>
          /\ cumulative_errors'.FEC_Correctable = cumulative_errors.FEC_Correctable
          /\ cumulative_errors'.FEC_Uncorrectable = cumulative_errors.FEC_Uncorrectable
          /\ cumulative_errors'.CRCErrorCount = cumulative_errors.CRCErrorCount
          /\ cumulative_errors'.ConnectorInsertionCount =
                IF scenario = "Mechanical" /\ i = Checkpoint
                THEN cumulative_errors.ConnectorInsertionCount + 1
                ELSE cumulative_errors.ConnectorInsertionCount ]_vars

\* C35 witness: the mechanical checkpoint record is down; the total of
\* FEC_Correctable counted before it is still 1 and the insertion count
\* is 6.
C35_Witness ==
    /\ scenario = "Mechanical" /\ pc = "running" /\ HasRow
    /\ LastTick = Checkpoint
    /\ LastRow.linkState = "down"
    /\ cumulative_errors.FEC_Correctable = 1
    /\ cumulative_errors.ConnectorInsertionCount = 6

\* the severity of the latest tick is above the threshold of the scenario
\* for uncorrectable errors: 3.0 dB (Mechanical), 48 degrees (Thermal)
AboveUncorrectableThreshold(severity) ==
    IF scenario = "Mechanical" THEN severity > 3 * Unit ELSE severity > 48 * Unit

\* C36: the total of FEC_Uncorrectable is 0 until a tick whose record is up
\* and whose severity is above the threshold of the scenario: only such a
\* tick raises it, a positive total has a tick above the threshold behind
\* it, and every record of the mechanical normal and early phases that is up
\* carries 0.
C36_UncorrectableNeedsSeverity ==
    /\ [](cumulative_errors.FEC_Uncorrectable > 0 =>
            \E j \in 1 .. i : AboveUncorrectableThreshold(curve[j]))
    /\ [][ (scenario \in {"Thermal", "Mechanical"} /\ i' = i + 1) =>
             /\ cumulative_errors'.FEC_Uncorrectable
                    > cumulative_errors.FEC_Uncorrectable =>
                   /\ data'[1].linkState = "up"
                   /\ AboveUncorrectableThreshold(current_severity')
             /\ cumulative_errors'.FEC_Uncorrectable
                    >= cumulative_errors.FEC_Uncorrectable
             /\ data'[1].linkState = "up" =>
                   data'[1].FEC_Uncorrectable =
                       Exact(cumulative_errors'.FEC_Uncorrectable)
             /\ (scenario = "Mechanical"
                   /\ i < IntFrac(total_points, 2) + IntFrac(total_points, 2)) =>
                   cumulative_errors'.FEC_Uncorrectable = 0 ]_vars

\* C36 witness: an up record of a mechanical tick of severity 5.0 carries the
\* first uncorrectable error.
C36_Witness ==
    /\ scenario = "Mechanical" /\ HasRow
    /\ LastRow.linkState = "up"
    /\ current_severity = 5 * Unit
    /\ LastRow.FEC_Uncorrectable = Exact(1)

(***************************************************************************)
(* Properties of the delivery loop across series.                          *)
(***************************************************************************)
\* the for loop over the series is exhausted and while True goes round to
\* build the next series
Rebuilds == servicer.at = "iterating" /\ servicer'.at = "call"

\* C37 (as stated): between two consecutive builds of a series the loop
\* delivers at least one record of the series built first, and so sleeps at
\* least once, whatever the port filter of the request.
C37_RecordBetweenBuilds ==
    [][ Rebuilds => servicer.index > 0 /\ servicer.slept > 0 ]_vars

\* the time a timestamp text names
Named(text) == text[2]

\* C38: the timestamps of the records delivered to one subscriber are
\* strictly increasing over the whole stream, also from the last record of a
\* series to the first of the series built after it, when every sleep lasts
\* interval_seconds or more.
C38_TimestampsIncreaseAcrossBuilds ==
    [][ (Yields /\ servicer.last # NoEntry) =>
          Named(servicer'.yielded.timestamp) > Named(servicer.last.timestamp) ]_vars

\* C38 witness: the first record of the third series has been delivered,
\* with a timestamp later than that of the last record of the second.
C38_Witness ==
    /\ servicer.at = "yielded"
    /\ servicer.builds = 3
    /\ servicer.index = 1
    /\ Named(servicer.yielded.timestamp) > Named(servicer.last.timestamp)

C39_AtMostMaxWorkersServed ==
    Cardinality(Held(workers)) <= max_workers

\* The state in which the 11th subscription waits: the first 10 stream.
C39_EleventhWaits ==
    /\ workers[max_workers + 1] = "queued"
    /\ \A s \in 1 .. max_workers : workers[s] = "streaming"

(***************************************************************************)
(* Properties of the alerts of the client.                                 *)
(***************************************************************************)
\* the alerts raised for the record received last
Raised(alert) == \E k \in DOMAIN client.alerts : client.alerts[k] = alert

\* C40: for every record received, the low-fan-speed alert is raised exactly
\* when 0 < FanSpeed < 1000, the high-temperature alert exactly when
\* Temperature > 70 and the link-down alert exactly when linkState is down;
\* a down record whose FanSpeed and Temperature are 0.0 raises the link-down
\* alert alone.
C40_AlertsExactlyOnThresholds ==
    client.received > 0 =>
        LET telemetry == client.telemetry
        IN  /\ Raised("LOW FAN SPEED ALERT")
                 <=> (0 < telemetry.FanSpeed.v
                        /\ telemetry.FanSpeed.v < FAN_SPEED_MIN * Unit)
            /\ Raised("HIGH TEMPERATURE ALERT")
                 <=> telemetry.Temperature.v > TEMP_THRESHOLD * Unit
            /\ Raised("LINK DOWN ALERT") <=> telemetry.linkState = "down"
            /\ Len(client.alerts) <= 3
            /\ (telemetry.linkState = "down" /\ telemetry.FanSpeed.v = 0
                  /\ telemetry.Temperature.v = 0)
                 => client.alerts = <<"LINK DOWN ALERT">>

\* C40 witness: a down record with FanSpeed and Temperature 0.0 has been
\* received and has raised the link-down alert alone.
C40_Witness ==
    /\ client.received > 0
    /\ client.telemetry.linkState = "down"
    /\ client.telemetry.FanSpeed = Exact(0)
    /\ client.telemetry.Temperature = Exact(0)
    /\ client.alerts = <<"LINK DOWN ALERT">>

====
